---- MODULE Spec2Model ----
(***************************************************************************)
(* TNFS daemon: the directory engine of one session (directory.c).         *)
(* Strings are sequences of character codes (47 '/', 92 '\', 46 '.',       *)
(* 42 '*', 63 '?', 65..90 'A'..'Z', 97..122 'a'..'z'); the terminating     *)
(* zero byte is implicit, except in request payloads, which are byte       *)
(* sequences exactly as they arrive.                                       *)
(***************************************************************************)
EXTENDS Integers, Sequences, FiniteSets, TLC

(* ------------------------------------------------------------------ *)
(* config.h                                                            *)
(* ------------------------------------------------------------------ *)
MAXMSGSZ == 532
TNFS_HEADERSZ == 4
TNFS_MAX_PAYLOAD == MAXMSGSZ - TNFS_HEADERSZ - 1
MAX_DHND_PER_CONN == 8
DIR_HANDLE_TIMEOUT == 300
MAX_TNFSPATH == 256
MAX_FILENAME_LEN == 256
READDIRX_HEADER_SIZE == 4
READDIRX_ENTRY_SIZE == 14

(* Option bits of the wire protocol (tnfs.h). *)
TNFS_DIROPT_NO_FOLDERSFIRST == 1
TNFS_DIROPT_NO_SKIPHIDDEN == 2
TNFS_DIROPT_NO_SKIPSPECIAL == 4
TNFS_DIROPT_DIR_PATTERN == 8
TNFS_DIROPT_NO_FOLDERS == 16
TNFS_DIROPT_TRAVERSE == 32
TNFS_DIRSORT_NONE == 1
TNFS_DIRSORT_CASE == 2
TNFS_DIRSORT_DESCENDING == 4
TNFS_DIRSORT_MODIFIED == 8
TNFS_DIRSORT_SIZE == 16
TNFS_DIRSTATUS_EOF == 1

(* byte & mask, for a mask that is one bit *)
HasBit(byte, mask) == (byte \div mask) % 2 = 1

(* ------------------------------------------------------------------ *)
(* Bounds of the model                                                 *)
(* ------------------------------------------------------------------ *)
(* requests handled in one behaviour *)
MaxReq == 4
(* requests a session sends when it sends every command *)
MaxReqErr == 3
(* the greatest position a SEEKDIR asks for, the greatest maxresults *)
MaxSeek == 3
MaxResults == 2
(* entries of a directory listing drawn in the loading specification *)
MaxDirLen == 3
(* entries of a directory listing drawn in the sorting specification *)
MaxSortLen == 4

(* ------------------------------------------------------------------ *)
(* C strings                                                           *)
(* ------------------------------------------------------------------ *)
(* the NULL pointer where a string is expected: no string holds a negative code *)
NULL == <<-1>>

(* n copies of character c *)
Rep(c, n) == [i \in 1..n |-> c]

(* snprintf / strlcpy into a buffer of bufsz bytes: at most bufsz-1 characters *)
Trunc(s, bufsz) == IF Len(s) > bufsz - 1 THEN SubSeq(s, 1, bufsz - 1) ELSE s

(* strstr(hay, needle) != NULL *)
Contains(hay, needle) ==
    \E i \in 0..(Len(hay) - Len(needle)) :
        \A j \in 1..Len(needle) : hay[i + j] = needle[j]

(* has needle as a prefix *)
HasPrefix(s, p) == Len(p) <= Len(s) /\ SubSeq(s, 1, Len(p)) = p

(* tolower() in the C locale *)
tolower(c) == IF c >= 65 /\ c <= 90 THEN c + 32 ELSE c

(* strlen of the C string that starts at position i (1-based) of buf; the
   payload always ends in a zero byte when this is used *)
RECURSIVE StrLenAt(_, _)
StrLenAt(buf, i) ==
    IF i > Len(buf) \/ buf[i] = 0 THEN 0 ELSE 1 + StrLenAt(buf, i + 1)

(* strcmp: the sign of the first difference, comparing unsigned characters *)
RECURSIVE strcmp(_, _)
strcmp(a, b) ==
    IF a = <<>> /\ b = <<>> THEN 0
    ELSE IF a = <<>> THEN -1
    ELSE IF b = <<>> THEN 1
    ELSE IF a[1] # b[1] THEN a[1] - b[1]
    ELSE strcmp(Tail(a), Tail(b))

(* strcasecmp: strcmp of the lower-cased strings *)
strcasecmp(a, b) ==
    strcmp([i \in 1..Len(a) |-> tolower(a[i])], [i \in 1..Len(b) |-> tolower(b[i])])

(* ------------------------------------------------------------------ *)
(* normalize_path                                                      *)
(* ------------------------------------------------------------------ *)
(* The loop of normalize_path from position i with the `slash' flag.  `count'
   is never incremented in the source, so the bufsz test never ends the loop. *)
RECURSIVE NormalizeFrom(_, _, _)
NormalizeFrom(oldbuf, i, slash) ==
    IF i > Len(oldbuf) THEN <<>>
    ELSE IF oldbuf[i] # 47
         THEN <<oldbuf[i]>> \o NormalizeFrom(oldbuf, i + 1, FALSE)
    ELSE IF ~slash /\ (oldbuf[i] = 47 \/ oldbuf[i] = 92)
         THEN <<47>> \o NormalizeFrom(oldbuf, i + 1, TRUE)
    ELSE NormalizeFrom(oldbuf, i + 1, slash)

normalize_path(oldbuf) == NormalizeFrom(oldbuf, 1, FALSE)

(* ------------------------------------------------------------------ *)
(* The host filesystem, as the libc calls of directory.c see it         *)
(* ------------------------------------------------------------------ *)
(* root, as given to tnfs_setroot: "/r" *)
root == <<47, 114>>
(* realroot = realpath(root) *)
realroot == <<47, 114>>

(* a uint32_t below 65536, as its two 16 bit halves *)
U32(n) == [hi |-> 0, lo |-> n]

(* What readdir and get_fileinfo (fileinfo.c) deliver for one entry: the name,
   whether get_fileinfo succeeds, and the fileinfo_t it fills in. *)
FsEntry(name, statok, dir, hidden, special, size, mtime, ctime) ==
    [name |-> name, statok |-> statok, dir |-> dir, hidden |-> hidden,
     special |-> special, size |-> U32(size), mtime |-> U32(mtime), ctime |-> U32(ctime)]

(* "a" and "b": directories *)
EntDirA == FsEntry(<<97>>, TRUE, TRUE, FALSE, FALSE, 0, 5, 5)
EntDirB == FsEntry(<<98>>, TRUE, TRUE, FALSE, FALSE, 0, 4, 4)
(* "B" and "c.s": regular files *)
EntFileB == FsEntry(<<66>>, TRUE, FALSE, FALSE, FALSE, 3, 2, 2)
EntFileCS == FsEntry(<<99, 46, 115>>, TRUE, FALSE, FALSE, FALSE, 1, 7, 7)
(* ".h": a hidden file; "p": a special file (a fifo) *)
EntHidden == FsEntry(<<46, 104>>, TRUE, FALSE, TRUE, FALSE, 2, 1, 1)
EntSpecial == FsEntry(<<112>>, TRUE, FALSE, FALSE, TRUE, 0, 3, 3)
(* "dl": a dangling symbolic link, get_fileinfo fails on it *)
EntDangling == FsEntry(<<100, 108>>, FALSE, FALSE, FALSE, FALSE, 0, 0, 0)
(* "r" and "x": directories of "/" and of "/x" *)
EntDirR == FsEntry(<<114>>, TRUE, TRUE, FALSE, FALSE, 0, 1, 1)
EntDirX == FsEntry(<<120>>, TRUE, TRUE, FALSE, FALSE, 0, 1, 1)
(* "s": a file outside the root *)
EntSecret == FsEntry(<<115>>, TRUE, FALSE, FALSE, FALSE, 9, 9, 9)
(* files with names of 255, 240 and 241 characters ('x', 'y', 'z') *)
EntLong255 == FsEntry(Rep(120, MAX_FILENAME_LEN - 1), TRUE, FALSE, FALSE, FALSE, 1, 1, 1)
EntLong240 == FsEntry(Rep(121, MAX_FILENAME_LEN - 16), TRUE, FALSE, FALSE, FALSE, 2, 2, 2)
EntLong241 == FsEntry(Rep(122, MAX_FILENAME_LEN - 15), TRUE, FALSE, FALSE, FALSE, 3, 3, 3)

PathRoot == <<47>>
PathRA == root \o <<47, 97>>
PathRB == root \o <<47, 98>>
PathX == <<47, 120>>
PathXR == <<47, 120, 47, 114>>

(* The directories that exist, each with its entries in readdir order:
   /, /r (the served tree), /r/a, /r/b, and /x, /x/r outside the tree. *)
DefaultFs ==
    (PathRoot :> <<EntDirR, EntDirX>>)
    @@ (root :> <<EntDirA, EntFileCS, EntHidden, EntDirB, EntDangling, EntFileB, EntSpecial>>)
    @@ (PathRA :> <<EntLong255, EntLong240, EntLong241>>)
    @@ (PathRB :> <<>>)
    @@ (PathX :> <<EntDirR>>)
    @@ (PathXR :> <<EntSecret>>)

(* The components of a path: the substrings between '/' characters. *)
RECURSIVE SplitFrom(_, _, _)
SplitFrom(s, i, cur) ==
    IF i > Len(s) THEN <<cur>>
    ELSE IF s[i] = 47 THEN <<cur>> \o SplitFrom(s, i + 1, <<>>)
    ELSE SplitFrom(s, i + 1, Append(cur, s[i]))

Components(s) == SplitFrom(s, 1, <<>>)

RECURSIVE Canon(_)
Canon(stack) ==
    IF stack = <<>> THEN <<>> ELSE <<47>> \o Head(stack) \o Canon(Tail(stack))

CanonPath(stack) == IF stack = <<>> THEN PathRoot ELSE Canon(stack)

(* The kernel's walk of an absolute path over the directories `dirs': "" and
   "." stay, ".." goes up (and stays at "/"), a name must be a directory.  The
   result is the canonical path, or NULL (ENOENT). *)
RECURSIVE Walk(_, _, _, _)
Walk(dirs, comps, i, stack) ==
    IF i > Len(comps) THEN CanonPath(stack)
    ELSE LET c == comps[i] IN
         IF c = <<>> \/ c = <<46>> THEN Walk(dirs, comps, i + 1, stack)
         ELSE IF c = <<46, 46>>
              THEN Walk(dirs, comps, i + 1,
                        IF stack = <<>> THEN stack ELSE SubSeq(stack, 1, Len(stack) - 1))
         ELSE IF CanonPath(Append(stack, c)) \in dirs
              THEN Walk(dirs, comps, i + 1, Append(stack, c))
         ELSE NULL

(* realpath(path, valpath) / the directory opendir(path) opens *)
realpath(dirs, path) == Walk(dirs, Components(path), 1, <<>>)

(* validate_path: the values it can return.  When realpath fails valpath is an
   uninitialised stack buffer that realpath leaves undefined: strstr on it can
   go either way. *)
validate_path(dirs, path) ==
    LET valpath == realpath(dirs, path) IN
    IF valpath = NULL THEN {0, 1}
    ELSE IF Contains(valpath, realroot) THEN {1} ELSE {0}

(* ------------------------------------------------------------------ *)
(* Directory entry lists (singly linked lists, as sequences)            *)
(* ------------------------------------------------------------------ *)
(* The flags get_fileinfo reports for an entry *)
FinfFlags(e) ==
    (IF e.dir THEN {"DIRECTORY"} ELSE {})
    \cup (IF e.hidden THEN {"HIDDEN"} ELSE {})
    \cup (IF e.special THEN {"SPECIAL"} ELSE {})

(* A list node: `addr' stands for the address calloc returned (never 0, the
   NULL pointer), `entry' is its directory_entry; `next' is the order of the
   sequence.  flags are copied only inside the `is a directory' branch of
   _load_directory, so they stay 0 for everything else. *)
NewNode(e, addr) ==
    [addr |-> addr,
     entry |-> [entrypath |-> Trunc(e.name, MAX_FILENAME_LEN),
                flags |-> IF e.dir THEN FinfFlags(e) ELSE {},
                size |-> e.size, mtime |-> e.mtime, ctime |-> e.ctime]]

(* a directory_entry_list as a pointer: the address of its head, NULL (0) when
   the list is empty *)
ListHead(dlist) == IF dlist = <<>> THEN 0 ELSE Head(dlist).addr

(* dirlist_push: the node becomes the head *)
dirlist_push(dlist, node) == <<node>> \o dlist

(* dirlist_concat *)
dirlist_concat(list1, list2) == IF list1 = <<>> THEN list2 ELSE list1 \o list2

(* dirlist_get_node_at_index that walks one node too far *)
GetNodeAtIndexOneTooFar(dlist, index) ==
    IF index + 2 <= Len(dlist) THEN dlist[index + 2].addr ELSE 0

(* dirlist_get_node_at_index: the node `index' steps from the head, or NULL (0) *)
RECURSIVE dirlist_get_node_at_index(_, _)
dirlist_get_node_at_index(dlist, index) ==
    IF dlist = <<>> THEN 0
    ELSE IF index = 0 THEN Head(dlist).addr
    ELSE dirlist_get_node_at_index(Tail(dlist), index - 1)

(* dirlist_get_index_for_node: the nodes walked before `node' is met; the
   length of the list when it is not met *)
RECURSIVE dirlist_get_index_for_node(_, _)
dirlist_get_index_for_node(dlist, node) ==
    IF dlist = <<>> THEN 0
    ELSE IF Head(dlist).addr = node THEN 0
    ELSE 1 + dirlist_get_index_for_node(Tail(dlist), node)

(* node->next, for a node of dlist *)
NextNode(dlist, node) ==
    LET i == dirlist_get_index_for_node(dlist, node) + 1
    IN  IF i < Len(dlist) THEN dlist[i + 1].addr ELSE 0

(* node->entry, for a node of dlist *)
NodeEntry(dlist, node) == dlist[dirlist_get_index_for_node(dlist, node) + 1].entry

(* the entries of a list, in list order *)
Entries(dlist) == [i \in 1..Len(dlist) |-> dlist[i].entry]

(* (int)(a - b) for two uint32_t: the difference modulo 2^32, read as a two's
   complement int.  A uint32_t is its two 16 bit halves [hi, lo]. *)
Sub32ToInt(a, b) ==
    LET borrow == IF a.lo < b.lo THEN 1 ELSE 0
        lo == a.lo - b.lo + 65536 * borrow
        hi == (a.hi - b.hi - borrow) % 65536
    IN  IF hi >= 32768 THEN (hi - 65536) * 65536 + lo ELSE hi * 65536 + lo

(* r *= -1 on an int; INT_MIN stays INT_MIN on a two's complement machine *)
NegInt(r) == IF r = -2147483647 - 1 THEN r ELSE -r

(* the comparison of _mergesort_merge without the DESCENDING reversal *)
MergeCompareNoReversal(left, right, sortopts) ==
    IF HasBit(sortopts, TNFS_DIRSORT_SIZE)
        THEN Sub32ToInt(left.entry.size, right.entry.size)
    ELSE IF HasBit(sortopts, TNFS_DIRSORT_MODIFIED)
        THEN Sub32ToInt(left.entry.mtime, right.entry.mtime)
    ELSE IF HasBit(sortopts, TNFS_DIRSORT_CASE)
        THEN strcmp(left.entry.entrypath, right.entry.entrypath)
    ELSE strcasecmp(left.entry.entrypath, right.entry.entrypath)

(* the comparison of _mergesort_merge: r, after the DESCENDING reversal *)
MergeCompare(left, right, sortopts) ==
    LET r == IF HasBit(sortopts, TNFS_DIRSORT_SIZE)
                 THEN Sub32ToInt(left.entry.size, right.entry.size)
             ELSE IF HasBit(sortopts, TNFS_DIRSORT_MODIFIED)
                 THEN Sub32ToInt(left.entry.mtime, right.entry.mtime)
             ELSE IF HasBit(sortopts, TNFS_DIRSORT_CASE)
                 THEN strcmp(left.entry.entrypath, right.entry.entrypath)
             ELSE strcasecmp(left.entry.entrypath, right.entry.entrypath)
    IN  IF HasBit(sortopts, TNFS_DIRSORT_DESCENDING) THEN NegInt(r) ELSE r

RECURSIVE _mergesort_merge(_, _, _)
_mergesort_merge(list_left, list_right, sortopts) ==
    IF list_left = <<>> THEN list_right
    ELSE IF list_right = <<>> THEN list_left
    ELSE IF MergeCompare(Head(list_left), Head(list_right), sortopts) < 0
         THEN <<Head(list_left)>> \o _mergesort_merge(Tail(list_left), list_right, sortopts)
    ELSE <<Head(list_right)>> \o _mergesort_merge(list_left, Tail(list_right), sortopts)

(* _mergesort_get_middle: the 1-based position of `slow' when the loop ends *)
RECURSIVE MiddleLoop(_, _, _)
MiddleLoop(n, slow, fast) ==
    IF fast + 1 <= n /\ fast + 2 <= n THEN MiddleLoop(n, slow + 1, fast + 2) ELSE slow

_mergesort_get_middle(head) == MiddleLoop(Len(head), 1, 1)

RECURSIVE _mergesort(_, _)
_mergesort(head, sortopts) ==
    IF Len(head) <= 1 THEN head
    ELSE LET mid == _mergesort_get_middle(head)
             list_left == SubSeq(head, 1, mid)
             list_right == SubSeq(head, mid + 1, Len(head))
         IN  _mergesort_merge(_mergesort(list_left, sortopts),
                              _mergesort(list_right, sortopts), sortopts)

dirlist_sort(dlist, sortopts) == _mergesort(dlist, sortopts)

(* ------------------------------------------------------------------ *)
(* _pattern_match                                                      *)
(* ------------------------------------------------------------------ *)
(* the table filled with characters compared as they are, without tolower *)
RECURSIVE LookupCaseSensitive(_, _, _, _)
LookupCaseSensitive(src, pattern, i, j) ==
    IF i = 0 /\ j = 0 THEN TRUE
    ELSE IF j = 0 THEN FALSE
    ELSE IF i = 0
         THEN IF pattern[j] = 42 THEN LookupCaseSensitive(src, pattern, 0, j - 1)
              ELSE FALSE
    ELSE IF pattern[j] = 42
         THEN LookupCaseSensitive(src, pattern, i, j - 1)
              \/ LookupCaseSensitive(src, pattern, i - 1, j)
    ELSE IF pattern[j] = 63 \/ src[i] = pattern[j]
         THEN LookupCaseSensitive(src, pattern, i - 1, j - 1)
    ELSE FALSE

(* lookup[i][j] of the table the function fills, by the same recurrence *)
RECURSIVE Lookup(_, _, _, _)
Lookup(src, pattern, i, j) ==
    IF i = 0 /\ j = 0 THEN TRUE
    ELSE IF j = 0 THEN FALSE
    ELSE IF i = 0
         THEN IF pattern[j] = 42 THEN Lookup(src, pattern, 0, j - 1) ELSE FALSE
    ELSE IF pattern[j] = 42
         THEN Lookup(src, pattern, i, j - 1) \/ Lookup(src, pattern, i - 1, j)
    ELSE IF pattern[j] = 63 \/ src[i] = pattern[j]
              \/ tolower(src[i]) = tolower(pattern[j])
         THEN Lookup(src, pattern, i - 1, j - 1)
    ELSE FALSE

_pattern_match(src, pattern) ==
    IF src = NULL \/ pattern = NULL THEN FALSE
    ELSE IF Len(pattern) = 0 THEN Len(src) = 0
    ELSE Lookup(src, pattern, Len(src), Len(pattern))

(* ------------------------------------------------------------------ *)
(* Directory handles                                                   *)
(* ------------------------------------------------------------------ *)
(* A native directory iterator (DIR* ): the directory it reads and how many
   entries readdir has delivered; dir = NULL is the NULL pointer. *)
NullDir == [dir |-> NULL, pos |-> 0]

(* a dir_handle of a freshly allocated (zeroed) session *)
ZeroHandle ==
    [open |-> FALSE, loaded |-> FALSE, path |-> <<>>, pattern |-> <<>>,
     diropt |-> 0, sortopt |-> 0, open_at |-> 0, handle |-> NullDir,
     entry_list |-> <<>>, current_entry |-> 0, entry_count |-> 0]

Slots == 0..(MAX_DHND_PER_CONN - 1)

(* the least slot that satisfies P, or -1 *)
FirstSlot(P(_)) ==
    IF \E i \in Slots : P(i)
    THEN CHOOSE i \in Slots : P(i) /\ \A j \in Slots : P(j) => i <= j
    ELSE -1

(* _tnfs_free_dir_handle *)
_tnfs_free_dir_handle(dhandle) ==
    [dhandle EXCEPT !.handle = NullDir, !.path = <<>>, !.pattern = <<>>,
                    !.entry_list = <<>>, !.current_entry = 0,
                    !.entry_count = 0, !.loaded = FALSE]

(* the closedir calls _tnfs_free_dir_handle makes on dhandle *)
FreeCloses(dhandle) == IF dhandle.handle.dir # NULL THEN 1 ELSE 0

(* _tnfs_init_dhandle; now = time(NULL) *)
_tnfs_init_dhandle(dhandle, now, path, diropt, sortopt, pattern) ==
    [dhandle EXCEPT !.path = Trunc(path, MAX_TNFSPATH),
                    !.pattern = IF pattern = NULL THEN <<>>
                                ELSE Trunc(pattern, MAX_TNFSPATH),
                    !.diropt = diropt, !.sortopt = sortopt, !.open_at = now]

(* the test with the timeout counted twice *)
IsStaleLate(dhandle, now) ==
    ~dhandle.open /\ dhandle.loaded /\ now > dhandle.open_at + 2 * DIR_HANDLE_TIMEOUT

(* the `remove old handles' test of _tnfs_find_free_dir_handle *)
IsStale(dhandle, now) ==
    ~dhandle.open /\ dhandle.loaded /\ now > dhandle.open_at + DIR_HANDLE_TIMEOUT

(* the test of `attempt 1 - try to reuse handle'.  With pattern == NULL and a
   stored pattern that is not empty the source calls strncmp on NULL, which is
   undefined: ubmatch is what that comparison then yields. *)
ReuseMatch(dhandle, path, diropt, sortopt, pattern, ubmatch) ==
    /\ dhandle.loaded
    /\ dhandle.path = path
    /\ dhandle.diropt = diropt
    /\ dhandle.sortopt = sortopt
    /\ \/ pattern = NULL /\ dhandle.pattern = <<>>
       \/ pattern # NULL /\ dhandle.pattern = pattern
       \/ pattern = NULL /\ dhandle.pattern # <<>> /\ ubmatch

(* the test of the second tier without its look at `loaded' *)
IsEmptySlotNotOpen(dhandle) == ~dhandle.open

(* the test of `attempt 2 - try to find empty handle' *)
IsEmptySlot(dhandle) == ~(dhandle.open \/ dhandle.loaded)

(* the test of `attempt 3 - try to find any available handle' *)
IsAvailableSlot(dhandle) == ~dhandle.open

(* _tnfs_find_free_dir_handle: the index returned (-1: none), the handle table
   it leaves, and the closedir calls it made *)
_tnfs_find_free_dir_handle(dhandles, now, path, diropt, sortopt, pattern, reuse, ubmatch) ==
    LET swept == [i \in Slots |-> IF IsStale(dhandles[i], now)
                                   THEN _tnfs_free_dir_handle(dhandles[i])
                                   ELSE dhandles[i]]
        sweepcloses == Cardinality({i \in Slots : IsStale(dhandles[i], now)
                                                   /\ FreeCloses(dhandles[i]) = 1})
        Reusable(i) == ReuseMatch(swept[i], path, diropt, sortopt, pattern, ubmatch)
        Empty(i) == IsEmptySlot(swept[i])
        Available(i) == IsAvailableSlot(swept[i])
        r == FirstSlot(Reusable)
        e == FirstSlot(Empty)
        a == FirstSlot(Available)
    IN  IF reuse /\ r >= 0
        THEN [i |-> r,
              dhandles |-> [swept EXCEPT ![r].current_entry = ListHead(swept[r].entry_list)],
              closes |-> sweepcloses]
        ELSE IF e >= 0
        THEN [i |-> e,
              dhandles |-> [swept EXCEPT ![e] =
                               _tnfs_init_dhandle(swept[e], now, path, diropt, sortopt, pattern)],
              closes |-> sweepcloses]
        ELSE IF a >= 0
        THEN [i |-> a,
              dhandles |-> [swept EXCEPT ![a] =
                               _tnfs_init_dhandle(
                                   IF swept[a].loaded THEN _tnfs_free_dir_handle(swept[a])
                                   ELSE swept[a],
                                   now, path, diropt, sortopt, pattern)],
              closes |-> sweepcloses
                         + (IF swept[a].loaded THEN FreeCloses(swept[a]) ELSE 0)]
        ELSE [i |-> -1, dhandles |-> swept, closes |-> sweepcloses]

(* ------------------------------------------------------------------ *)
(* _load_directory                                                     *)
(* ------------------------------------------------------------------ *)
(* the tests of the loop of _load_directory with the pattern applied to every
   entry, directories too, whatever DIR_PATTERN says *)
AcceptedPatternOnAll(e, diropts, pattern) ==
    /\ e.statok
    /\ ~(pattern # NULL /\ ~_pattern_match(e.name, pattern))
    /\ ~(~HasBit(diropts, TNFS_DIROPT_NO_SKIPHIDDEN) /\ e.hidden)
    /\ ~(~HasBit(diropts, TNFS_DIROPT_NO_SKIPSPECIAL) /\ e.special)
    /\ ~(HasBit(diropts, TNFS_DIROPT_NO_FOLDERS) /\ e.dir)

(* Whether the loop of _load_directory keeps an entry: get_fileinfo succeeds
   and none of the four `continue' tests fires. *)
Accepted(e, diropts, pattern) ==
    /\ e.statok
    /\ ~(/\ HasBit(diropts, TNFS_DIROPT_DIR_PATTERN) \/ ~e.dir
         /\ pattern # NULL
         /\ ~_pattern_match(e.name, pattern))
    /\ ~(~HasBit(diropts, TNFS_DIROPT_NO_SKIPHIDDEN) /\ e.hidden)
    /\ ~(~HasBit(diropts, TNFS_DIROPT_NO_SKIPSPECIAL) /\ e.special)
    /\ ~(HasBit(diropts, TNFS_DIROPT_NO_FOLDERS) /\ e.dir)

(* `break if we've reached it': entrycount is the count after the increment *)
ReachedMax(maxresults, entrycount) == maxresults > 0 /\ entrycount >= maxresults

(* whether an accepted entry goes to list_dirs rather than list_files *)
ToListDirs(e, diropts) == e.dir /\ ~HasBit(diropts, TNFS_DIROPT_NO_FOLDERSFIRST)

(* The `Read every entry' loop from the i-th readdir call on: the two lists,
   entrycount (a uint16_t) and the readdir calls that delivered an entry. *)
RECURSIVE LoadLoop(_, _, _, _, _, _, _, _)
LoadLoop(ents, i, diropts, maxresults, pattern, list_dirs, list_files, entrycount) ==
    IF i > Len(ents)
    THEN [list_dirs |-> list_dirs, list_files |-> list_files,
          entrycount |-> entrycount, pos |-> Len(ents)]
    ELSE IF ~Accepted(ents[i], diropts, pattern)
    THEN LoadLoop(ents, i + 1, diropts, maxresults, pattern, list_dirs, list_files, entrycount)
    ELSE LET node == NewNode(ents[i], i)
             dirs == IF ToListDirs(ents[i], diropts)
                     THEN dirlist_push(list_dirs, node) ELSE list_dirs
             files == IF ToListDirs(ents[i], diropts)
                      THEN list_files ELSE dirlist_push(list_files, node)
             count == (entrycount + 1) % 65536
         IN  IF ReachedMax(maxresults, count)
             THEN [list_dirs |-> dirs, list_files |-> files,
                   entrycount |-> count, pos |-> i]
             ELSE LoadLoop(ents, i + 1, diropts, maxresults, pattern, dirs, files, count)

(* `Sort the two lists' and `Combine the two lists into one' *)
SortAndCombine(list_dirs, list_files, sortopts) ==
    IF ~HasBit(sortopts, TNFS_DIRSORT_NONE)
    THEN dirlist_concat(dirlist_sort(list_dirs, sortopts), dirlist_sort(list_files, sortopts))
    ELSE dirlist_concat(list_dirs, list_files)

(* _load_directory on dirh over the filesystem fsys: the errno returned
   ("SUCCESS" for 0) and the handle it leaves.  opendir fails with ENOENT
   when the path leads to no directory. *)
_load_directory(dirh, fsys, diropts, sortopts, maxresults, pattern) ==
    LET d == realpath(DOMAIN fsys, dirh.path) IN
    IF d = NULL
    THEN [result |-> "ENOENT",
          dirh |-> [dirh EXCEPT !.entry_count = 0, !.handle = NullDir]]
    ELSE LET r == LoadLoop(fsys[d], 1, diropts, maxresults, pattern, <<>>, <<>>, 0)
             list == SortAndCombine(r.list_dirs, r.list_files, sortopts)
         IN  [result |-> "SUCCESS",
              dirh |-> [dirh EXCEPT !.handle = [dir |-> d, pos |-> r.pos],
                                    !.entry_list = list,
                                    !.entry_count = r.entrycount,
                                    !.current_entry = ListHead(list)]]

(* _traverse_directory (traverse.c): the flat list of the directory; the
   directories below it are not descended into here. *)
_traverse_directory(dirh, fsys, diropts, sortopts, maxresults, pattern) ==
    _load_directory(dirh, fsys, diropts, sortopts, maxresults, pattern)

(* ------------------------------------------------------------------ *)
(* State                                                               *)
(* ------------------------------------------------------------------ *)
VARIABLES
    fs,        \* the host filesystem: canonical directory path -> entries in readdir order
    sroot,     \* s->root: the subpath of the root the session mounted
    dhandles,  \* s->dhandles
    now,       \* time(NULL)
    ndir,      \* native directory iterators opened and not closed
    req,       \* the request the last handler ran on: [cmd, databuf]
    sent,      \* the replies tnfs_send was given by the last handler, in order
    ub,        \* undefined behaviour of the last handler: "none" or "oob"
    nreq,      \* requests handled so far
    limit,     \* requests the client sends in all
    hist,      \* per slot, what READDIRX returned since its last successful OPENDIRX
    lastseqno, \* s->lastseqno: the sequence number of the request handled last
    resent,    \* retransmitted requests answered so far
    sessions,  \* the session table: per slot a session or NoSession
    call       \* a function under test: its arguments and what it returned

vars == <<fs, sroot, dhandles, now, ndir, req, sent, ub, nreq, limit, hist,
          lastseqno, resent, sessions, call>>

(* A reply: the status byte, the payload length given to tnfs_send, and what
   the payload holds (fields a command does not send stay at their defaults). *)
Reply(status, len) ==
    [status |-> status, len |-> len, handle |-> 0, count |-> 0, dir_status |-> 0,
     dirpos |-> 0, entries |-> <<>>, name |-> <<>>, pos |-> 0]

(* What a client saw of a slot.  valid: an OPENDIRX succeeded on it and no
   SEEKDIR followed; seen: the entries READDIRX returned since; seekpos: the
   position of a SEEKDIR that succeeded and was not yet followed by a READDIRX
   (-1: none); told: what TELLDIR answered last since that SEEKDIR (-1: nothing);
   from: the seekpos the last READDIRX started with. *)
NoHist == [valid |-> FALSE, seen |-> <<>>, seekpos |-> -1, told |-> -1, from |-> -1]

(* the C string that starts at position pos (1-based) of a payload *)
CStrAt(buf, pos) == SubSeq(buf, pos, pos + StrLenAt(buf, pos) - 1)

(* tnfs16uint / tnfs32uint: little endian, from position pos of a payload *)
tnfs16uint(buf, pos) == buf[pos] + 256 * buf[pos + 1]
tnfs32uint(buf, pos) ==
    buf[pos] + 256 * buf[pos + 1] + 65536 * buf[pos + 2] + 16777216 * buf[pos + 3]

(* snprintf(path, MAX_TNFSPATH, "%s/%s/%s", root, s->root, client path) *)
ComposePath(sessionroot, clientpath) ==
    Trunc(root \o <<47>> \o sessionroot \o <<47>> \o clientpath, MAX_TNFSPATH)

(* `set path to root if requested path is outside tnfs root', for the value v
   validate_path returned *)
ContainedPath(normalized_path, v) == IF v = 0 THEN root ELSE normalized_path

(* hist after an allocation that returned slot i of the table `after': every
   slot the allocation freed or initialised starts afresh, and slot i records
   from now on when an OPENDIRX succeeded on it. *)
HistAfterOpen(before, after, i, loadedok) ==
    [j \in Slots |->
        IF j = i THEN [NoHist EXCEPT !.valid = loadedok]
        ELSE IF after[j] # before[j] THEN NoHist
        ELSE hist[j]]

(* the session table of a server that was just started: MaxSessions slots
   stand for the MAX_SESSIONS of the program *)
MaxSessions == 3
NoSession == [sid |-> 0, ipaddr |-> 0, cli_fd |-> -1, last_contact |-> 0]
NoSessions == [i \in 0..(MaxSessions - 1) |-> NoSession]

(* no function is under test *)
NoCall == [fn |-> "none"]

(* a session right after MOUNT (its dhandles zeroed) over the filesystem fsys,
   a client that sends n requests, and the function under test c *)
MountedCalling(fsys, n, c) ==
    /\ lastseqno = 0
    /\ resent = 0
    /\ sessions = NoSessions
    /\ call = c
    /\ fs = fsys
    /\ sroot = <<>>
    /\ dhandles = [i \in Slots |-> ZeroHandle]
    /\ now = 0
    /\ ndir = 0
    /\ req = [cmd |-> "NONE", databuf |-> <<>>]
    /\ sent = <<>>
    /\ ub = "none"
    /\ nreq = 0
    /\ limit = n
    /\ hist = [i \in Slots |-> NoHist]

Mounted(fsys, n) == MountedCalling(fsys, n, NoCall)

Init == Mounted(DefaultFs, MaxReq)

(* what every handler does to the request bookkeeping; the dispatcher stored
   the sequence number of the request, and a client numbers its requests
   consecutively *)
Handled(cmd, databuf) ==
    /\ nreq < limit
    /\ UNCHANGED <<limit, resent, sessions, call>>
    /\ req' = [cmd |-> cmd, databuf |-> databuf]
    /\ nreq' = nreq + 1
    /\ lastseqno' = (lastseqno + 1) % 256

(* ------------------------------------------------------------------ *)
(* tnfs_opendir                                                        *)
(* ------------------------------------------------------------------ *)
(* the path tnfs_opendir and tnfs_opendirx build before validate_path *)
RequestedPath(sessionroot, clientpath) ==
    normalize_path(ComposePath(sessionroot, clientpath))

tnfs_opendir(databuf) ==
    /\ Handled("OPENDIR", databuf)
    /\ Len(databuf) >= 1
    /\ UNCHANGED <<fs, sroot, now>>
    /\ ub' = "none"
    /\ IF databuf[Len(databuf)] # 0
       THEN /\ sent' = <<Reply("EINVAL", 0)>>
            /\ UNCHANGED <<dhandles, ndir, hist>>
       ELSE \E requested \in {RequestedPath(sroot, CStrAt(databuf, 1))} :
            \E v \in validate_path(DOMAIN fs, requested) :
            \E ff \in {_tnfs_find_free_dir_handle(dhandles, now,
                           ContainedPath(requested, v), 0, 0, NULL, FALSE, FALSE)} :
            IF ff.i >= 0
            THEN \E dptr \in {realpath(DOMAIN fs, ff.dhandles[ff.i].path)} :
                 IF dptr # NULL
                 THEN /\ dhandles' = [ff.dhandles EXCEPT
                                         ![ff.i].handle = [dir |-> dptr, pos |-> 0],
                                         ![ff.i].open = TRUE]
                      /\ ndir' = ndir - ff.closes + 1
                      /\ sent' = <<[Reply("SUCCESS", 1) EXCEPT !.handle = ff.i]>>
                      /\ hist' = HistAfterOpen(dhandles, ff.dhandles, ff.i, FALSE)
                 ELSE /\ dhandles' = ff.dhandles
                      /\ ndir' = ndir - ff.closes
                      /\ sent' = <<Reply("ENOENT", 0)>>
                      /\ hist' = HistAfterOpen(dhandles, ff.dhandles, ff.i, FALSE)
            ELSE /\ dhandles' = ff.dhandles
                 /\ ndir' = ndir - ff.closes
                 /\ sent' = <<Reply("EMFILE", 0)>>
                 /\ hist' = HistAfterOpen(dhandles, ff.dhandles, -1, FALSE)

(* ------------------------------------------------------------------ *)
(* tnfs_opendirx                                                       *)
(* ------------------------------------------------------------------ *)
(* The request as tnfs_opendirx parses it from a payload of at least 7 bytes
   that ends in a zero byte. *)
ParseOpenDirX(databuf) ==
    LET datasz == Len(databuf)
        i == StrLenAt(databuf, 5)
    IN  [diropts |-> databuf[1],
         sortopts |-> databuf[2],
         maxresults |-> tnfs16uint(databuf, 3),
         pPattern |-> IF i + 5 = datasz \/ i = 0 THEN NULL ELSE CStrAt(databuf, 5),
         pDirpath |-> IF i + 5 = datasz THEN CStrAt(databuf, 5)
                      ELSE CStrAt(databuf, 5 + i + 1)]

(* the test of tnfs_opendirx without its look at the last byte *)
OpenDirXTooShort(databuf) == Len(databuf) < 7

(* `We should have a minimum of 7 bytes in the request
    And the buffer should be null-terminated' *)
OpenDirXMalformed(databuf) == Len(databuf) < 7 \/ databuf[Len(databuf)] # 0

(* The load step of tnfs_opendirx on the slot dirh the allocation returned:
   a TRAVERSE request on a loaded slot keeps the list, another TRAVERSE request
   traverses, every other request loads. *)
LoadStep(dirh, fsys, rq) ==
    IF HasBit(rq.diropts, TNFS_DIROPT_TRAVERSE)
    THEN IF dirh.loaded
         THEN [result |-> "SUCCESS", dirh |-> dirh]
         ELSE _traverse_directory(dirh, fsys, rq.diropts, rq.sortopts,
                                  rq.maxresults, rq.pPattern)
    ELSE _load_directory(dirh, fsys, rq.diropts, rq.sortopts, rq.maxresults, rq.pPattern)

(* the native iterators the load step opened (it closes none) *)
LoadOpens(dirh, rq, result) ==
    IF HasBit(rq.diropts, TNFS_DIROPT_TRAVERSE) /\ dirh.loaded THEN 0
    ELSE IF result = "SUCCESS" THEN 1 ELSE 0

(* What the strncmp of the reuse test can yield on a NULL pattern: the call is
   made when a TRAVERSE request without pattern meets a loaded slot that stores
   a pattern. *)
UbMatches(rq) ==
    IF /\ HasBit(rq.diropts, TNFS_DIROPT_TRAVERSE)
       /\ rq.pPattern = NULL
       /\ \E i \in Slots : dhandles[i].loaded /\ dhandles[i].pattern # <<>>
    THEN BOOLEAN ELSE {FALSE}

tnfs_opendirx(databuf) ==
    /\ Handled("OPENDIRX", databuf)
    /\ Len(databuf) >= 1
    /\ UNCHANGED <<fs, sroot, now>>
    /\ ub' = "none"
    /\ IF OpenDirXMalformed(databuf)
       THEN /\ sent' = <<Reply("EINVAL", 0)>>
            /\ UNCHANGED <<dhandles, ndir, hist>>
       ELSE \E rq \in {ParseOpenDirX(databuf)} :
            \E requested \in {RequestedPath(sroot, rq.pDirpath)} :
            \E v \in validate_path(DOMAIN fs, requested), ubmatch \in UbMatches(rq) :
            \E ff \in {_tnfs_find_free_dir_handle(dhandles, now,
                           ContainedPath(requested, v), rq.diropts, rq.sortopts,
                           rq.pPattern, HasBit(rq.diropts, TNFS_DIROPT_TRAVERSE), ubmatch)} :
            IF ff.i >= 0
            THEN \E ld \in {LoadStep(ff.dhandles[ff.i], fs, rq)} :
                 IF ld.result = "SUCCESS"
                 THEN /\ dhandles' = [ff.dhandles EXCEPT
                                         ![ff.i] = [ld.dirh EXCEPT !.open = TRUE,
                                                                   !.loaded = TRUE]]
                      /\ ndir' = ndir - ff.closes
                                 + LoadOpens(ff.dhandles[ff.i], rq, ld.result)
                      /\ sent' = <<[Reply("SUCCESS", 3) EXCEPT
                                       !.handle = ff.i,
                                       !.count = ld.dirh.entry_count]>>
                      /\ hist' = HistAfterOpen(dhandles, ff.dhandles, ff.i, TRUE)
                 ELSE /\ dhandles' = [ff.dhandles EXCEPT ![ff.i] = ld.dirh]
                      /\ ndir' = ndir - ff.closes
                      /\ sent' = <<Reply(ld.result, 0)>>
                      /\ hist' = HistAfterOpen(dhandles, ff.dhandles, ff.i, FALSE)
            ELSE /\ dhandles' = ff.dhandles
                 /\ ndir' = ndir - ff.closes
                 /\ sent' = <<Reply("EMFILE", 0)>>
                 /\ hist' = HistAfterOpen(dhandles, ff.dhandles, -1, FALSE)

(* ------------------------------------------------------------------ *)
(* Handle arguments                                                    *)
(* ------------------------------------------------------------------ *)
(* What s->dhandles[MAX_DHND_PER_CONN] can read as: the memory that follows
   the array, zero or not. *)
GarbageHandles == {ZeroHandle, [ZeroHandle EXCEPT !.open = TRUE]}

(* s->dhandles[h], where g is what an index past the array reads *)
Slot(h, g) == IF h \in Slots THEN dhandles[h] ELSE g

(* s->dhandles[h] = d; a store past the array does not reach the table *)
SetSlot(h, d) == IF h \in Slots THEN [dhandles EXCEPT ![h] = d] ELSE dhandles

(* the bound test every handler makes on the handle byte *)
HandleTooBig(h) == h > MAX_DHND_PER_CONN

(* whether the handler indexed s->dhandles outside 0..MAX_DHND_PER_CONN-1 *)
UbOf(h) == IF h \in Slots THEN "none" ELSE "oob"

(* ------------------------------------------------------------------ *)
(* tnfs_readdir                                                        *)
(* ------------------------------------------------------------------ *)
(* readdir on a native iterator: the entry delivered, or none *)
NativeEntries(handle) ==
    IF handle.dir # NULL /\ handle.dir \in DOMAIN fs THEN fs[handle.dir] ELSE <<>>

tnfs_readdir(databuf) ==
    /\ Handled("READDIR", databuf)
    /\ Len(databuf) >= 1
    /\ UNCHANGED <<fs, sroot, now, ndir, hist>>
    /\ \E g \in GarbageHandles :
       LET h == databuf[1] IN
       IF Len(databuf) # 1 \/ HandleTooBig(h)
       THEN /\ sent' = <<Reply("EBADF", 0)>>
            /\ ub' = "none"
            /\ UNCHANGED dhandles
       ELSE IF ~Slot(h, g).open
       THEN /\ sent' = <<Reply("EBADF", 0)>>
            /\ ub' = UbOf(h)
            /\ UNCHANGED dhandles
       ELSE LET dh == Slot(h, g)
                ents == NativeEntries(dh.handle)
            IN  /\ ub' = UbOf(h)
                /\ IF dh.handle.pos < Len(ents)
                   THEN LET name == Trunc(ents[dh.handle.pos + 1].name, MAX_FILENAME_LEN) IN
                        /\ sent' = <<[Reply("SUCCESS", Len(name) + 1) EXCEPT !.name = name]>>
                        /\ dhandles' = SetSlot(h, [dh EXCEPT !.handle.pos = @ + 1])
                   ELSE /\ sent' = <<Reply("EOF", 0)>>
                        /\ UNCHANGED dhandles

(* ------------------------------------------------------------------ *)
(* tnfs_closedir                                                       *)
(* ------------------------------------------------------------------ *)
(* tnfs_closedir that releases the slot it closes *)
ClosedirReleasing(databuf) ==
    /\ Handled("CLOSEDIR", databuf)
    /\ Len(databuf) >= 1
    /\ UNCHANGED <<fs, sroot, now, ndir, hist>>
    /\ \E g \in GarbageHandles :
       LET h == databuf[1] IN
       IF Len(databuf) # 1 \/ HandleTooBig(h)
       THEN /\ sent' = <<Reply("EBADF", 0)>>
            /\ ub' = "none"
            /\ UNCHANGED dhandles
       ELSE IF ~Slot(h, g).open
       THEN /\ sent' = <<Reply("EBADF", 0)>>
            /\ ub' = UbOf(h)
            /\ UNCHANGED dhandles
       ELSE /\ dhandles' = SetSlot(h, [_tnfs_free_dir_handle(Slot(h, g)) EXCEPT !.open = FALSE])
            /\ ub' = UbOf(h)
            /\ sent' = <<Reply("SUCCESS", 0)>>

tnfs_closedir(databuf) ==
    /\ Handled("CLOSEDIR", databuf)
    /\ Len(databuf) >= 1
    /\ UNCHANGED <<fs, sroot, now, ndir, hist>>
    /\ \E g \in GarbageHandles :
       LET h == databuf[1] IN
       IF Len(databuf) # 1 \/ HandleTooBig(h)
       THEN /\ sent' = <<Reply("EBADF", 0)>>
            /\ ub' = "none"
            /\ UNCHANGED dhandles
       ELSE IF ~Slot(h, g).open
       THEN /\ sent' = <<Reply("EBADF", 0)>>
            /\ ub' = UbOf(h)
            /\ UNCHANGED dhandles
       ELSE /\ dhandles' = SetSlot(h, [Slot(h, g) EXCEPT !.open = FALSE])
            /\ ub' = UbOf(h)
            /\ sent' = <<Reply("SUCCESS", 0)>>

(* ------------------------------------------------------------------ *)
(* tnfs_seekdir, tnfs_telldir                                          *)
(* ------------------------------------------------------------------ *)
(* the last operand of the handle check of tnfs_seekdir and tnfs_telldir *)
NothingToSeek(dh) == dh.entry_list = <<>> /\ dh.handle.dir = NULL

tnfs_seekdir(databuf) ==
    /\ Handled("SEEKDIR", databuf)
    /\ Len(databuf) >= 1
    /\ UNCHANGED <<fs, sroot, now, ndir>>
    /\ \E g \in GarbageHandles :
       LET h == databuf[1] IN
       IF Len(databuf) # 5 \/ HandleTooBig(h)
       THEN /\ sent' = <<Reply("EBADF", 0)>>
            /\ ub' = "none"
            /\ UNCHANGED <<dhandles, hist>>
       ELSE IF ~Slot(h, g).open \/ NothingToSeek(Slot(h, g))
       THEN /\ sent' = <<Reply("EBADF", 0)>>
            /\ ub' = UbOf(h)
            /\ UNCHANGED <<dhandles, hist>>
       ELSE \E dh \in {Slot(h, g)}, pos \in {tnfs32uint(databuf, 2)} :
                /\ dhandles' = SetSlot(h,
                       IF dh.entry_list = <<>>
                       THEN [dh EXCEPT !.handle.pos = pos]
                       ELSE [dh EXCEPT !.current_entry =
                                dirlist_get_node_at_index(dh.entry_list, pos)])
                /\ hist' = [j \in Slots |->
                               IF j = h THEN [NoHist EXCEPT !.seekpos = pos]
                               ELSE hist[j]]
                /\ ub' = UbOf(h)
                /\ sent' = <<Reply("SUCCESS", 0)>>

tnfs_telldir(databuf) ==
    /\ Handled("TELLDIR", databuf)
    /\ Len(databuf) >= 1
    /\ UNCHANGED <<fs, sroot, now, ndir, dhandles>>
    /\ \E g \in GarbageHandles :
       LET h == databuf[1] IN
       IF Len(databuf) # 1 \/ HandleTooBig(h)
       THEN /\ sent' = <<Reply("EBADF", 0)>>
            /\ ub' = "none"
            /\ UNCHANGED hist
       ELSE IF ~Slot(h, g).open \/ NothingToSeek(Slot(h, g))
       THEN /\ sent' = <<Reply("EBADF", 0)>>
            /\ ub' = UbOf(h)
            /\ UNCHANGED hist
       ELSE \E dh \in {Slot(h, g)} :
            \E pos \in {IF dh.entry_list = <<>>
                         THEN dh.handle.pos
                         ELSE dirlist_get_index_for_node(dh.entry_list, dh.current_entry)} :
                /\ ub' = UbOf(h)
                /\ sent' = <<[Reply("SUCCESS", 4) EXCEPT !.pos = pos]>>
                /\ hist' = [j \in Slots |->
                               IF j = h THEN [hist[j] EXCEPT !.told = pos] ELSE hist[j]]

(* ------------------------------------------------------------------ *)
(* tnfs_readdirx                                                       *)
(* ------------------------------------------------------------------ *)
(* `Quit if we've reached the requested count' *)
CountReached(req_count, count_sent) == req_count # 0 /\ count_sent >= req_count

(* the fit test that also refuses an entry that fills the payload exactly *)
WontFitOrFills(total_size, namelen) ==
    total_size + READDIRX_ENTRY_SIZE + namelen >= TNFS_MAX_PAYLOAD

(* `Quit if this entry won't fit in what's left of the reply buffer' *)
WontFit(total_size, namelen) ==
    total_size + READDIRX_ENTRY_SIZE + namelen > TNFS_MAX_PAYLOAD

(* The pack loop from the cursor cur on: the cursor it leaves, count_sent (a
   uint8_t), total_size and the entries copied into the reply. *)
RECURSIVE PackLoop(_, _, _, _, _, _)
PackLoop(dlist, cur, req_count, count_sent, total_size, packed) ==
    IF cur = 0 \/ CountReached(req_count, count_sent)
       \/ WontFit(total_size, Len(NodeEntry(dlist, cur).entrypath))
    THEN [current_entry |-> cur, count_sent |-> count_sent,
          total_size |-> total_size, entries |-> packed]
    ELSE PackLoop(dlist, NextNode(dlist, cur), req_count, (count_sent + 1) % 256,
                  total_size + READDIRX_ENTRY_SIZE + Len(NodeEntry(dlist, cur).entrypath),
                  Append(packed, NodeEntry(dlist, cur)))

(* what reply[2..3] can hold when no entry set it: the array is not initialised *)
Garbage16 == {0, 65535}

(* the replies of tnfs_readdirx with dirpos taken from the cursor after the
   pack loop instead of before it *)
ReaddirxRepliesPosAfter(dh, pk, garbage) ==
    (IF dh.current_entry = 0 THEN <<Reply("EOF", 0)>> ELSE <<>>)
    \o <<[Reply("SUCCESS", pk.total_size) EXCEPT
            !.count = pk.count_sent,
            !.dir_status = IF pk.current_entry = 0 THEN TNFS_DIRSTATUS_EOF ELSE 0,
            !.dirpos = IF pk.entries = <<>> THEN garbage
                       ELSE dirlist_get_index_for_node(dh.entry_list, pk.current_entry)
                                % 65536,
            !.entries = pk.entries]>>

(* the replies of tnfs_readdirx with the end-of-directory bit taken from the
   cursor before the pack loop instead of after it *)
ReaddirxRepliesEofBefore(dh, pk, garbage) ==
    (IF dh.current_entry = 0 THEN <<Reply("EOF", 0)>> ELSE <<>>)
    \o <<[Reply("SUCCESS", pk.total_size) EXCEPT
            !.count = pk.count_sent,
            !.dir_status = IF dh.current_entry = 0 THEN TNFS_DIRSTATUS_EOF ELSE 0,
            !.dirpos = IF pk.entries = <<>> THEN garbage
                       ELSE dirlist_get_index_for_node(dh.entry_list, dh.current_entry)
                                % 65536,
            !.entries = pk.entries]>>

(* the replies of tnfs_readdirx once the handle byte passed its check: the EOF
   reply of `Return EOF if we're already at the end of the list', which is not
   followed by a return, and then the reply that ends the function *)
ReaddirxReplies(dh, pk, garbage) ==
    (IF dh.current_entry = 0 THEN <<Reply("EOF", 0)>> ELSE <<>>)
    \o <<[Reply("SUCCESS", pk.total_size) EXCEPT
            !.count = pk.count_sent,
            !.dir_status = IF pk.current_entry = 0 THEN TNFS_DIRSTATUS_EOF ELSE 0,
            !.dirpos = IF pk.entries = <<>> THEN garbage
                       ELSE dirlist_get_index_for_node(dh.entry_list, dh.current_entry)
                                % 65536,
            !.entries = pk.entries]>>

tnfs_readdirx(databuf) ==
    /\ Handled("READDIRX", databuf)
    /\ Len(databuf) >= 1
    /\ UNCHANGED <<fs, sroot, now, ndir>>
    /\ \E g \in GarbageHandles, garbage \in Garbage16 :
       LET h == databuf[1] IN
       IF Len(databuf) # 2 \/ HandleTooBig(h)
       THEN /\ sent' = <<Reply("EBADF", 0)>>
            /\ ub' = "none"
            /\ UNCHANGED <<dhandles, hist>>
       ELSE \E dh \in {Slot(h, g)} :
            \E pk \in {PackLoop(dh.entry_list, dh.current_entry, databuf[2], 0,
                                READDIRX_HEADER_SIZE, <<>>)} :
                /\ sent' = ReaddirxReplies(dh, pk, garbage)
                /\ dhandles' = SetSlot(h, [dh EXCEPT !.current_entry = pk.current_entry])
                /\ hist' = [j \in Slots |->
                               IF j = h
                               THEN [hist[j] EXCEPT
                                        !.seen = IF hist[j].valid THEN @ \o pk.entries ELSE @,
                                        !.from = hist[j].seekpos,
                                        !.seekpos = -1]
                               ELSE hist[j]]
                /\ ub' = UbOf(h)

(* ------------------------------------------------------------------ *)
(* tnfs_mkdir, tnfs_rmdir                                              *)
(* ------------------------------------------------------------------ *)
(* tnfs_valid_filename (tnfs_file.c): the full path it leaves in dirbuf, or
   NULL when it returns -1 (a path with a "../") *)
tnfs_valid_filename(sessionroot, buf) ==
    IF Contains(CStrAt(buf, 1), <<46, 46, 47>>) THEN NULL
    ELSE normalize_path(ComposePath(sessionroot, CStrAt(buf, 1)))

(* the position of the last '/' of a path (0: none) *)
LastSlash(s) ==
    IF \E i \in 1..Len(s) : s[i] = 47
    THEN CHOOSE i \in 1..Len(s) : s[i] = 47 /\ \A j \in (i + 1)..Len(s) : s[j] # 47
    ELSE 0

DirName(s) == SubSeq(s, 1, LastSlash(s) - 1)
BaseName(s) == SubSeq(s, LastSlash(s) + 1, Len(s))

(* the canonical path of the entry `name' of directory p *)
ChildPath(p, name) == IF p = PathRoot THEN <<47>> \o name ELSE p \o <<47>> \o name

(* mkdir(dirbuf, 0755) on fsys: the errno ("SUCCESS" for 0) and the filesystem left *)
mkdir(fsys, dirbuf, mtime) ==
    LET p == realpath(DOMAIN fsys, DirName(dirbuf))
        name == BaseName(dirbuf)
    IN  IF p = NULL THEN [errno |-> "ENOENT", fs |-> fsys]
        ELSE IF name \in {<<>>, <<46>>, <<46, 46>>}
                \/ \E k \in 1..Len(fsys[p]) : fsys[p][k].name = name
        THEN [errno |-> "EEXIST", fs |-> fsys]
        ELSE [errno |-> "SUCCESS",
              fs |-> [d \in DOMAIN fsys \cup {ChildPath(p, name)} |->
                         IF d = ChildPath(p, name) THEN <<>>
                         ELSE IF d = p
                         THEN Append(fsys[p], FsEntry(name, TRUE, TRUE, FALSE, FALSE,
                                                      0, mtime, mtime))
                         ELSE fsys[d]]]

(* a listing without its entry `name' *)
RECURSIVE WithoutName(_, _)
WithoutName(ents, name) ==
    IF ents = <<>> THEN <<>>
    ELSE IF Head(ents).name = name THEN WithoutName(Tail(ents), name)
    ELSE <<Head(ents)>> \o WithoutName(Tail(ents), name)

(* rmdir(dirbuf) on fsys *)
rmdir(fsys, dirbuf) ==
    LET d == realpath(DOMAIN fsys, dirbuf)
        p == realpath(DOMAIN fsys, DirName(dirbuf))
    IN  IF d = NULL \/ p = NULL THEN [errno |-> "ENOENT", fs |-> fsys]
        ELSE IF d = PathRoot \/ BaseName(dirbuf) \in {<<>>, <<46>>, <<46, 46>>}
        THEN [errno |-> "EINVAL", fs |-> fsys]
        ELSE IF fsys[d] # <<>> THEN [errno |-> "ENOTEMPTY", fs |-> fsys]
        ELSE [errno |-> "SUCCESS",
              fs |-> [x \in DOMAIN fsys \ {d} |->
                         IF x = p THEN WithoutName(fsys[p], BaseName(dirbuf))
                         ELSE fsys[x]]]

tnfs_mkdir(buf) ==
    /\ Handled("MKDIR", buf)
    /\ Len(buf) >= 1
    /\ UNCHANGED <<sroot, now, ndir, dhandles, hist>>
    /\ ub' = "none"
    /\ IF buf[Len(buf)] # 0 \/ tnfs_valid_filename(sroot, buf) = NULL
       THEN /\ sent' = <<Reply("EINVAL", 0)>>
            /\ UNCHANGED fs
       ELSE LET r == mkdir(fs, tnfs_valid_filename(sroot, buf), now) IN
            /\ fs' = r.fs
            /\ sent' = <<Reply(r.errno, 0)>>

tnfs_rmdir(buf) ==
    /\ Handled("RMDIR", buf)
    /\ Len(buf) >= 1
    /\ UNCHANGED <<sroot, now, ndir, dhandles, hist>>
    /\ ub' = "none"
    /\ IF buf[Len(buf)] # 0 \/ tnfs_valid_filename(sroot, buf) = NULL
       THEN /\ sent' = <<Reply("EINVAL", 0)>>
            /\ UNCHANGED fs
       ELSE LET r == rmdir(fs, tnfs_valid_filename(sroot, buf)) IN
            /\ fs' = r.fs
            /\ sent' = <<Reply(r.errno, 0)>>

(* ------------------------------------------------------------------ *)
(* The clock                                                           *)
(* ------------------------------------------------------------------ *)
(* seconds that pass in one step of the clock, and the steps it takes *)
TickStep == 151
MaxTicks == 1

Tick ==
    /\ now + TickStep <= MaxTicks * TickStep
    /\ now' = now + TickStep
    /\ UNCHANGED <<fs, sroot, dhandles, ndir, req, sent, ub, nreq, limit, hist,
                   lastseqno, resent, sessions, call>>

(* ------------------------------------------------------------------ *)
(* Requests of a client                                                *)
(* ------------------------------------------------------------------ *)
(* the payload of OPENDIR, MKDIR and RMDIR: a path and its zero byte *)
PathPayload(path) == path \o <<0>>

(* the payload of OPENDIRX with both strings *)
OpenDirXPayload(diropt, sortopt, maxresults, pattern, dirpath) ==
    <<diropt, sortopt, maxresults % 256, maxresults \div 256>>
        \o pattern \o <<0>> \o dirpath \o <<0>>

(* the payload of OPENDIRX with one string only *)
OpenDirXPayload1(diropt, sortopt, maxresults, dirpath) ==
    <<diropt, sortopt, maxresults % 256, maxresults \div 256>> \o dirpath \o <<0>>

(* the payload of SEEKDIR: the handle and the position, little endian *)
SeekDirPayload(h, pos) ==
    <<h, pos % 256, (pos \div 256) % 256, (pos \div 65536) % 256, (pos \div 16777216) % 256>>

(* client paths: "/", "a", "b", "zz" (no such directory), "../x/r" (a directory
   outside the root whose path ends like the root) and "a/../b" *)
CPathSlash == <<47>>
CPathA == <<97>>
CPathB == <<98>>
CPathNone == <<122, 122>>
CPathEscape == <<46, 46, 47, 120, 47, 114>>
CPathDotDot == <<97, 47, 46, 46, 47, 98>>

(* handle bytes: two slots, the first index past the array and the next *)
HandleArgs == {0, 1, MAX_DHND_PER_CONN, MAX_DHND_PER_CONN + 1}

(* ------------------------------------------------------------------ *)
(* A session that pages through directories                            *)
(* ------------------------------------------------------------------ *)
Next ==
    \/ \E path \in {CPathSlash, CPathA}, sortopt \in {0, TNFS_DIRSORT_DESCENDING} :
           tnfs_opendirx(OpenDirXPayload(0, sortopt, 0, <<>>, path))
    \/ \E req_count \in {0, 1, 2} : tnfs_readdirx(<<0, req_count>>)
    \/ tnfs_readdirx(<<1, 0>>)
    \/ \E pos \in 0..MaxSeek : tnfs_seekdir(SeekDirPayload(0, pos))
    \/ \E h \in {0, 1} : tnfs_telldir(<<h>>)
    \/ \E h \in {0, 1} : tnfs_closedir(<<h>>)
    \/ tnfs_opendir(PathPayload(CPathB))
    \/ tnfs_readdir(<<0>>)

Spec == Init /\ [][Next]_vars

(* ------------------------------------------------------------------ *)
(* A session that sends every command, also with bad arguments         *)
(* ------------------------------------------------------------------ *)
InitErr == Mounted(DefaultFs, MaxReqErr)

NextErr ==
    \/ \E path \in {CPathA, CPathNone, CPathEscape, CPathDotDot} :
           tnfs_opendir(PathPayload(path))
    \/ tnfs_opendir(CPathA)
    \/ \E path \in {CPathB, CPathEscape, CPathDotDot} :
           tnfs_opendirx(OpenDirXPayload(0, 0, 0, <<>>, path))
    \/ tnfs_opendirx(OpenDirXPayload1(0, 0, 0, CPathNone))
    \/ tnfs_opendirx(OpenDirXPayload1(0, 0, 0, CPathA))
    \/ \E h \in HandleArgs : tnfs_readdir(<<h>>)
    \/ \E h \in HandleArgs : tnfs_closedir(<<h>>)
    \/ \E h \in HandleArgs : tnfs_seekdir(SeekDirPayload(h, 1))
    \/ \E h \in HandleArgs : tnfs_telldir(<<h>>)
    \/ \E h \in HandleArgs : tnfs_readdirx(<<h, 0>>)
    \/ tnfs_readdir(<<0, 0>>)
    \/ tnfs_closedir(<<0, 0>>)
    \/ tnfs_seekdir(<<0>>)
    \/ tnfs_telldir(<<0, 0>>)
    \/ tnfs_readdirx(<<0>>)
    \/ \E path \in {CPathNone, CPathB, CPathEscape} : tnfs_mkdir(PathPayload(path))
    \/ tnfs_mkdir(CPathA)
    \/ \E path \in {CPathA, CPathB, CPathNone, CPathEscape} : tnfs_rmdir(PathPayload(path))
    \/ tnfs_rmdir(CPathA)
    \/ Tick

SpecErr == InitErr /\ [][NextErr]_vars

(* ------------------------------------------------------------------ *)
(* One OPENDIRX on a fresh session, over every small root directory    *)
(* ------------------------------------------------------------------ *)
(* the entries a root directory is made of *)
Candidates ==
    {EntDirA, EntDirB, EntFileB, EntFileCS, EntHidden, EntSpecial, EntDangling}

(* the listings readdir can deliver out of the entries in S: up to n entries,
   no name twice *)
Listings(S, n) ==
    UNION {{l \in [1..k -> S] :
               \A i, j \in 1..k : i # j => l[i].name # l[j].name} : k \in 0..n}

(* the diropt bytes without TRAVERSE *)
DirOpts == 0..(TNFS_DIROPT_TRAVERSE - 1)

(* patterns: none, "*.s" *)
Patterns == {<<>>, <<42, 46, 115>>}

InitLoad ==
    \E l \in Listings(Candidates, MaxDirLen) :
        Mounted([DefaultFs EXCEPT ![root] = l], 1)

NextLoad ==
    \E diropt \in DirOpts, maxresults \in 0..MaxResults, pattern \in Patterns :
        tnfs_opendirx(OpenDirXPayload(diropt, 0, maxresults, pattern, CPathSlash))

SpecLoad == InitLoad /\ [][NextLoad]_vars

(* ------------------------------------------------------------------ *)
(* One sorting OPENDIRX on a fresh session                             *)
(* ------------------------------------------------------------------ *)
(* entries whose names differ in case, in length and in one letter *)
EntFileA == FsEntry(<<65>>, TRUE, FALSE, FALSE, FALSE, 3, 6, 6)
EntFileAb == FsEntry(<<97, 98>>, TRUE, FALSE, FALSE, FALSE, 3, 8, 8)

SortCandidates == {EntDirA, EntDirB, EntFileA, EntFileB, EntFileAb, EntFileCS}

(* sortopt bytes: by name in the four ways, unsorted, by size, by time *)
SortOpts ==
    {0, TNFS_DIRSORT_CASE, TNFS_DIRSORT_DESCENDING,
     TNFS_DIRSORT_CASE + TNFS_DIRSORT_DESCENDING, TNFS_DIRSORT_NONE,
     TNFS_DIRSORT_SIZE, TNFS_DIRSORT_MODIFIED}

InitSort ==
    \E l \in Listings(SortCandidates, MaxSortLen) :
        Mounted([DefaultFs EXCEPT ![root] = l], 1)

NextSort ==
    \E diropt \in {0, TNFS_DIROPT_NO_FOLDERSFIRST}, sortopt \in SortOpts :
        tnfs_opendirx(OpenDirXPayload(diropt, sortopt, 0, <<>>, CPathSlash))

SpecSort == InitSort /\ [][NextSort]_vars

(* ------------------------------------------------------------------ *)
(* A session that reopens directories with TRAVERSE                    *)
(* ------------------------------------------------------------------ *)
MaxReqReuse == 4
MaxTicksReuse == 2

(* the clock of a session that lives for maxticks steps of it *)
Elapse(maxticks) ==
    /\ now + TickStep <= maxticks * TickStep
    /\ now' = now + TickStep
    /\ UNCHANGED <<fs, sroot, dhandles, ndir, req, sent, ub, nreq, limit, hist,
                   lastseqno, resent, sessions, call>>

InitReuse == Mounted(DefaultFs, MaxReqReuse)

NextReuse ==
    \/ \E pattern \in Patterns :
           tnfs_opendirx(OpenDirXPayload(TNFS_DIROPT_TRAVERSE, 0, 0, pattern, CPathSlash))
    \/ tnfs_opendirx(OpenDirXPayload(TNFS_DIROPT_TRAVERSE, 0, 0, <<>>, CPathB))
    \/ tnfs_opendirx(OpenDirXPayload(0, 0, 0, <<>>, CPathSlash))
    \/ \E h \in {0, 1} : tnfs_closedir(<<h>>)
    \/ \E h \in {0, 1} : tnfs_readdirx(<<h, 1>>)
    \/ tnfs_mkdir(PathPayload(CPathNone))
    \/ Elapse(MaxTicksReuse)

SpecReuse == InitReuse /\ [][NextReuse]_vars

(* ------------------------------------------------------------------ *)
(* A session that opens directories until no slot is left              *)
(* ------------------------------------------------------------------ *)
MaxReqFull == 9

InitFull == Mounted(DefaultFs, MaxReqFull)

NextFull ==
    \/ tnfs_opendir(PathPayload(CPathB))
    \/ \E diropt \in {0, TNFS_DIROPT_TRAVERSE} :
           tnfs_opendirx(OpenDirXPayload(diropt, 0, 0, <<>>, CPathB))
    \/ tnfs_closedir(<<0>>)

SpecFull == InitFull /\ [][NextFull]_vars

(* ------------------------------------------------------------------ *)
(* A session whose client repeats requests                             *)
(* ------------------------------------------------------------------ *)
MaxReqRetry == 3
MaxResent == 2

(* a resend that answers with the first reply the handler sent, as if a later
   tnfs_send did not replace the cached reply *)
ResendFirstReply ==
    /\ nreq > 0
    /\ resent < MaxResent
    /\ resent' = resent + 1
    /\ sent' = <<sent[1]>>
    /\ UNCHANGED <<fs, sroot, dhandles, now, ndir, req, ub, nreq, limit, hist,
                   lastseqno, sessions, call>>

(* The dispatcher on a datagram whose sequence number equals s->lastseqno: the
   reply tnfs_send cached last is sent again and no handler runs. *)
tnfs_resend ==
    /\ nreq > 0
    /\ resent < MaxResent
    /\ resent' = resent + 1
    /\ sent' = <<sent[Len(sent)]>>
    /\ UNCHANGED <<fs, sroot, dhandles, now, ndir, req, ub, nreq, limit, hist,
                   lastseqno, sessions, call>>

InitRetry == Mounted(DefaultFs, MaxReqRetry)

NextRetry ==
    \/ \E path \in {CPathSlash, CPathB} :
           tnfs_opendirx(OpenDirXPayload(0, 0, 0, <<>>, path))
    \/ \E req_count \in {1, 2} : tnfs_readdirx(<<0, req_count>>)
    \/ tnfs_closedir(<<0>>)
    \/ tnfs_resend

SpecRetry == InitRetry /\ [][NextRetry]_vars

(* ------------------------------------------------------------------ *)
(* The session table                                                   *)
(* ------------------------------------------------------------------ *)
SESSION_TIMEOUT == 600

(* MaxSessionsPerIp stands for MAX_SESSIONS_PER_IP, the sids 1..MaxSid for the
   non-zero 16 bit sids *)
MaxSessionsPerIp == 2
MaxSid == 4

(* seconds that pass in one step of the clock of the table, and its steps *)
TableTickStep == 301
MaxTableTicks == 2

SessionSlots == 0..(MaxSessions - 1)

(* the slots that hold a session *)
Live(table) == {i \in SessionSlots : table[i] # NoSession}

tnfs_session_count(table) == Cardinality(Live(table))

(* the slots of the sessions of one client address *)
SessionsOfIp(table, ipaddr) == {i \in Live(table) : table[i].ipaddr = ipaddr}

(* the slot of the session with this sid, or -1 *)
tnfs_findsession_sid(table, sid) ==
    IF \E i \in Live(table) : table[i].sid = sid
    THEN CHOOSE i \in Live(table) :
             table[i].sid = sid /\ \A j \in Live(table) : table[j].sid = sid => i <= j
    ELSE -1

(* a sid taken from the number of sessions, without looking for a collision *)
NewSidFromCount(table) ==
    IF tnfs_session_count(table) < MaxSid THEN tnfs_session_count(table) + 1 ELSE 0

(* tnfs_newsid: the first sid no live session has; 0 when there is none *)
tnfs_newsid(table) ==
    IF \E sid \in 1..MaxSid : tnfs_findsession_sid(table, sid) < 0
    THEN CHOOSE sid \in 1..MaxSid :
             /\ tnfs_findsession_sid(table, sid) < 0
             /\ \A other \in 1..MaxSid :
                    tnfs_findsession_sid(table, other) < 0 => sid <= other
    ELSE 0

(* tnfs_allocsession: the first free slot gets a session with the sid withSid,
   or with a new sid when withSid is 0; sindex -1 when there is no slot or no
   sid *)
tnfs_allocsession(table, withSid) ==
    LET free == {i \in SessionSlots : table[i] = NoSession}
        sid == IF withSid # 0 THEN withSid ELSE tnfs_newsid(table)
    IN  IF free = {} \/ sid = 0
        THEN [sindex |-> -1, table |-> table]
        ELSE LET i == CHOOSE i \in free : \A j \in free : i <= j
             IN  [sindex |-> i, table |-> [table EXCEPT ![i].sid = sid]]

tnfs_freesession(table, sindex) == [table EXCEPT ![sindex] = NoSession]

(* what the operations on the table leave alone *)
TableOp(cmd) ==
    /\ req' = [cmd |-> cmd, databuf |-> <<>>]
    /\ UNCHANGED <<fs, sroot, dhandles, now, ndir, ub, nreq, limit, hist,
                   lastseqno, resent, call>>

(* MOUNT from the address ipaddr, over the TCP connection cli_fd or over UDP
   (cli_fd = -1) *)
tnfs_mount(ipaddr, cli_fd) ==
    /\ TableOp("MOUNT")
    /\ IF Cardinality(SessionsOfIp(sessions, ipaddr)) >= MaxSessionsPerIp
       THEN /\ sent' = <<Reply("EACCES", 0)>>
            /\ UNCHANGED sessions
       ELSE \E a \in {tnfs_allocsession(sessions, 0)} :
            IF a.sindex < 0
            THEN /\ sent' = <<Reply("EMFILE", 0)>>
                 /\ UNCHANGED sessions
            ELSE /\ sent' = <<Reply("SUCCESS", 6)>>
                 /\ sessions' = [a.table EXCEPT ![a.sindex].ipaddr = ipaddr,
                                                ![a.sindex].cli_fd = cli_fd,
                                                ![a.sindex].last_contact = now]

(* UMOUNT of the session in slot sindex *)
tnfs_umount(sindex) ==
    /\ sindex \in Live(sessions)
    /\ TableOp("UMOUNT")
    /\ sent' = <<Reply("SUCCESS", 0)>>
    /\ sessions' = tnfs_freesession(sessions, sindex)

(* a datagram of the session in slot sindex refreshes its last_contact *)
Contact(sindex) ==
    /\ sindex \in Live(sessions)
    /\ sessions[sindex].last_contact # now
    /\ sessions' = [sessions EXCEPT ![sindex].last_contact = now]
    /\ UNCHANGED <<fs, sroot, dhandles, now, ndir, req, sent, ub, nreq, limit, hist,
                   lastseqno, resent, call>>

(* the timeout sweep: every session whose last_contact + SESSION_TIMEOUT < now
   is freed *)
SweepSessions ==
    /\ sessions' = [i \in SessionSlots |->
                       IF /\ i \in Live(sessions)
                          /\ sessions[i].last_contact + SESSION_TIMEOUT < now
                       THEN NoSession ELSE sessions[i]]
    /\ UNCHANGED <<fs, sroot, dhandles, now, ndir, req, sent, ub, nreq, limit, hist,
                   lastseqno, resent, call>>

(* the TCP connection cli_fd was lost: every session bound to it is freed *)
tnfs_reset_cli_fd_in_sessions(cli_fd) ==
    /\ sessions' = [i \in SessionSlots |->
                       IF i \in Live(sessions) /\ sessions[i].cli_fd = cli_fd
                       THEN NoSession ELSE sessions[i]]
    /\ UNCHANGED <<fs, sroot, dhandles, now, ndir, req, sent, ub, nreq, limit, hist,
                   lastseqno, resent, call>>

TableTick ==
    /\ now + TableTickStep <= MaxTableTicks * TableTickStep
    /\ now' = now + TableTickStep
    /\ UNCHANGED <<fs, sroot, dhandles, ndir, req, sent, ub, nreq, limit, hist,
                   lastseqno, resent, sessions, call>>

(* client addresses, and the TCP connection of a client (-1: UDP) *)
IpAddrs == {1, 2}
CliFds == {-1, 5}

InitTable == Mounted(DefaultFs, 0)

NextTable ==
    \/ \E ipaddr \in IpAddrs, cli_fd \in CliFds : tnfs_mount(ipaddr, cli_fd)
    \/ \E sindex \in SessionSlots : tnfs_umount(sindex)
    \/ \E sindex \in SessionSlots : Contact(sindex)
    \/ SweepSessions
    \/ tnfs_reset_cli_fd_in_sessions(5)
    \/ TableTick

SpecTable == InitTable /\ [][NextTable]_vars

(* ------------------------------------------------------------------ *)
(* A session that sends payloads without their last zero byte          *)
(* ------------------------------------------------------------------ *)
MaxReqTerm == 3

(* a payload cut off before its last byte *)
Unterminated(payload) == SubSeq(payload, 1, Len(payload) - 1)

(* the client path "/b" *)
CPathSlashB == <<47>> \o CPathB

InitTerm == Mounted(DefaultFs, MaxReqTerm)

NextTerm ==
    \/ tnfs_opendirx(OpenDirXPayload(0, 0, 0, <<>>, CPathSlash))
    \/ tnfs_closedir(<<0>>)
    \/ Elapse(MaxTicksReuse)
    \/ \E path \in {CPathB, CPathSlashB} :
           tnfs_opendir(Unterminated(PathPayload(path)))
    \/ \E diropt \in {0, TNFS_DIROPT_TRAVERSE}, pattern \in Patterns :
           tnfs_opendirx(Unterminated(OpenDirXPayload(diropt, 0, 0, pattern, CPathSlashB)))
    \/ \E path \in {CPathNone, CPathA} : tnfs_mkdir(Unterminated(PathPayload(path)))
    \/ \E path \in {CPathB, CPathSlashB} : tnfs_rmdir(Unterminated(PathPayload(path)))

SpecTerm == InitTerm /\ [][NextTerm]_vars

(* ------------------------------------------------------------------ *)
(* The counters of _load_directory on a large directory                *)
(* ------------------------------------------------------------------ *)
(* the largest directory, in accepted entries, and the iterations of the loop
   taken in one step *)
MaxAccepted == 65536
ChunkLen == 64

(* One iteration of the loop of _load_directory on an entry that is accepted:
   a node is pushed, the uint16_t entrycount is incremented, and the loop is left
   when maxresults is reached.  st holds the entries readdir delivered so far
   (read), the nodes pushed (nodes) and entrycount. *)
CountIter(st) ==
    LET entrycount == (st.entrycount + 1) % 65536
    IN  [st EXCEPT !.read = @ + 1,
                   !.nodes = @ + 1,
                   !.entrycount = entrycount,
                   !.left = ReachedMax(st.maxresults, entrycount)]

(* the loop is over: readdir returned NULL or the break was taken *)
LoopOver(st) == st.read = st.accepted \/ st.left

(* up to k iterations of the loop *)
RECURSIVE CountLoop(_, _)
CountLoop(st, k) ==
    IF k = 0 \/ LoopOver(st) THEN st ELSE CountLoop(CountIter(st), k - 1)

(* _load_directory about to read a directory of `accepted' entries, all of
   them accepted *)
CountCall(accepted, maxresults) ==
    [fn |-> "_load_directory", accepted |-> accepted, maxresults |-> maxresults,
     read |-> 0, nodes |-> 0, entrycount |-> 0, left |-> FALSE,
     replied |-> FALSE, entry_count |-> 0, count |-> 0]

(* the loop goes on *)
LoadEntries ==
    /\ call.fn = "_load_directory"
    /\ ~LoopOver(call)
    /\ call' = CountLoop(call, ChunkLen)
    /\ UNCHANGED <<fs, sroot, dhandles, now, ndir, req, sent, ub, nreq, limit,
                   hist, lastseqno, resent, sessions>>

(* after the loop: dirh->entry_count = entrycount, and tnfs_opendirx sends
   entry_count as the count of its reply *)
ReplyCount ==
    /\ call.fn = "_load_directory"
    /\ LoopOver(call)
    /\ ~call.replied
    /\ call' = [call EXCEPT !.replied = TRUE,
                            !.entry_count = call.entrycount,
                            !.count = call.entrycount]
    /\ UNCHANGED <<fs, sroot, dhandles, now, ndir, req, sent, ub, nreq, limit,
                   hist, lastseqno, resent, sessions>>

(* directory sizes around the ends of the range of entrycount, and maxresults *)
AcceptedCounts == {0, 1, 2, MaxAccepted - 1, MaxAccepted}
MaxResultsArgs == {0, 2, 65535}

InitCount ==
    \E accepted \in AcceptedCounts, maxresults \in MaxResultsArgs :
        MountedCalling(DefaultFs, 0, CountCall(accepted, maxresults))

NextCount ==
    \/ LoadEntries
    \/ ReplyCount

SpecCount == InitCount /\ [][NextCount]_vars

(* ------------------------------------------------------------------ *)
(* _pattern_match on every short name and pattern                      *)
(* ------------------------------------------------------------------ *)
MaxNameLen == 3
MaxPatternLen == 3

(* the characters of names ('a', 'A', 'b') and of patterns (also '*', '?') *)
NameChars == {97, 65, 98}
PatternChars == NameChars \cup {42, 63}

(* the strings of up to n characters out of S *)
Strings(S, n) == UNION {[1..k -> S] : k \in 0..n}

(* _pattern_match about to be called *)
MatchCall(src, pattern) ==
    [fn |-> "_pattern_match", src |-> src, pattern |-> pattern,
     returned |-> FALSE, result |-> FALSE]

PatternMatchCall ==
    /\ call.fn = "_pattern_match"
    /\ ~call.returned
    /\ call' = [call EXCEPT !.returned = TRUE,
                            !.result = _pattern_match(call.src, call.pattern)]
    /\ UNCHANGED <<fs, sroot, dhandles, now, ndir, req, sent, ub, nreq, limit,
                   hist, lastseqno, resent, sessions>>

InitGlob ==
    \E src \in Strings(NameChars, MaxNameLen) :
    \E pattern \in Strings(PatternChars, MaxPatternLen) \ {<<>>} :
        MountedCalling(DefaultFs, 0, MatchCall(src, pattern))

NextGlob == PatternMatchCall

SpecGlob == InitGlob /\ [][NextGlob]_vars

(* ------------------------------------------------------------------ *)
(* A session that leaves loaded handles behind while time passes       *)
(* ------------------------------------------------------------------ *)
MaxReqTick == 5
MaxTicksTick == 3

InitTick == Mounted(DefaultFs, MaxReqTick)

NextTick ==
    \/ \E diropt \in {0, TNFS_DIROPT_TRAVERSE} :
           tnfs_opendirx(OpenDirXPayload(diropt, 0, 0, <<>>, CPathSlash))
    \/ \E h \in {0, 1} : tnfs_closedir(<<h>>)
    \/ Elapse(MaxTicksTick)

(* time does not stop: the event loop wakes up for its periodic tick whatever
   the clients do *)
SpecTick == InitTick /\ [][NextTick]_vars /\ WF_vars(Elapse(MaxTicksTick))

(* ------------------------------------------------------------------ *)
(* A session that fills its slots, closes some and opens again         *)
(* ------------------------------------------------------------------ *)
MaxReqTier == 11
MaxTicksTier == 2

InitTier == Mounted(DefaultFs, MaxReqTier)

NextTier ==
    \/ tnfs_opendirx(OpenDirXPayload(0, 0, 0, <<>>, CPathB))
    \/ \E h \in {1, 2} : tnfs_closedir(<<h>>)
    \/ Elapse(MaxTicksTier)

SpecTier == InitTier /\ [][NextTier]_vars

(* ------------------------------------------------------------------ *)
(* normalize_path on every short path                                  *)
(* ------------------------------------------------------------------ *)
MaxPathLen == 4

(* the characters of paths: '/', '\' and 'a' *)
PathChars == {47, 92, 97}

(* normalize_path about to be called on oldbuf *)
NormalizeCall(oldbuf) ==
    [fn |-> "normalize_path", oldbuf |-> oldbuf, returned |-> FALSE, newbuf |-> <<>>]

NormalizePathCall ==
    /\ call.fn = "normalize_path"
    /\ ~call.returned
    /\ call' = [call EXCEPT !.returned = TRUE,
                            !.newbuf = normalize_path(call.oldbuf)]
    /\ UNCHANGED <<fs, sroot, dhandles, now, ndir, req, sent, ub, nreq, limit,
                   hist, lastseqno, resent, sessions>>

InitNorm ==
    \E oldbuf \in Strings(PathChars, MaxPathLen) :
        MountedCalling(DefaultFs, 0, NormalizeCall(oldbuf))

NextNorm == NormalizePathCall

SpecNorm == InitNorm /\ [][NextNorm]_vars

(* ------------------------------------------------------------------ *)
(* One OPENDIRX that sorts by size or time, over large and small files *)
(* ------------------------------------------------------------------ *)
MaxWideLen == 3

(* a regular file with the size and mtime given as uint32_t halves *)
WideFile(name, size, mtime) ==
    [FsEntry(name, TRUE, FALSE, FALSE, FALSE, 0, 0, 0) EXCEPT !.size = size, !.mtime = mtime]

(* "w": empty, written in 1970; "x": 1 byte; "y": 3 GiB, written after 2038;
   "z": 4 GiB - 1 *)
EntEmpty == WideFile(<<119>>, U32(0), U32(0))
EntByte == WideFile(<<120>>, U32(1), [hi |-> 30000, lo |-> 7])
Ent3G == WideFile(<<121>>, [hi |-> 49152, lo |-> 0], [hi |-> 40000, lo |-> 7])
Ent4G == WideFile(<<122>>, [hi |-> 65535, lo |-> 65535], U32(9))

WideCandidates == {EntEmpty, EntByte, Ent3G, Ent4G, EntDirA}

(* sortopt bytes: by size and by time, ascending and descending *)
WideSortOpts ==
    {TNFS_DIRSORT_SIZE, TNFS_DIRSORT_MODIFIED,
     TNFS_DIRSORT_SIZE + TNFS_DIRSORT_DESCENDING,
     TNFS_DIRSORT_MODIFIED + TNFS_DIRSORT_DESCENDING}

InitWide ==
    \E l \in Listings(WideCandidates, MaxWideLen) :
        Mounted([DefaultFs EXCEPT ![root] = l], 1)

NextWide ==
    \E sortopt \in WideSortOpts :
        tnfs_opendirx(OpenDirXPayload(0, sortopt, 0, <<>>, CPathSlash))

SpecWide == InitWide /\ [][NextWide]_vars

(* ------------------------------------------------------------------ *)
(* A session that lists hidden and special files                       *)
(* ------------------------------------------------------------------ *)
MaxReqFlags == 3

InitFlags == Mounted(DefaultFs, MaxReqFlags)

NextFlags ==
    \/ \E diropt \in {0, TNFS_DIROPT_NO_SKIPHIDDEN, TNFS_DIROPT_NO_SKIPSPECIAL,
                      TNFS_DIROPT_NO_SKIPHIDDEN + TNFS_DIROPT_NO_SKIPSPECIAL} :
           tnfs_opendirx(OpenDirXPayload(diropt, 0, 0, <<>>, CPathSlash))
    \/ \E req_count \in {0, 1, 3} : tnfs_readdirx(<<0, req_count>>)

SpecFlags == InitFlags /\ [][NextFlags]_vars

(* ------------------------------------------------------------------ *)
(* A session that seeks in loaded lists, empty ones too                *)
(* ------------------------------------------------------------------ *)
MaxReqEmpty == 3
MaxSeekEmpty == 5

(* the pattern "q", which no name of the default filesystem matches *)
PatternNoMatch == <<113>>

InitEmpty == Mounted(DefaultFs, MaxReqEmpty)

NextEmpty ==
    \/ tnfs_opendirx(OpenDirXPayload(0, 0, 0, <<>>, CPathSlash))
    \/ tnfs_opendirx(OpenDirXPayload(TNFS_DIROPT_NO_FOLDERS, 0, 0, PatternNoMatch, CPathSlash))
    \/ tnfs_opendirx(OpenDirXPayload(0, 0, 0, <<>>, CPathB))
    \/ tnfs_opendir(PathPayload(CPathSlash))
    \/ \E h \in {0, 1}, pos \in {0, 1, MaxSeekEmpty - 1, MaxSeekEmpty} :
           tnfs_seekdir(SeekDirPayload(h, pos))
    \/ \E h \in {0, 1} : tnfs_telldir(<<h>>)
    \/ tnfs_readdirx(<<0, 1>>)

SpecEmpty == InitEmpty /\ [][NextEmpty]_vars

(* ------------------------------------------------------------------ *)
(* A client that reads a large directory to its end                    *)
(* ------------------------------------------------------------------ *)
MaxReadCalls == 3

(* the length of every name in the directory *)
ShortNameLen == 1

(* The handle tnfs_opendirx returned for a list of `nodes' entries, read by
   tnfs_readdirx: `at' is the index of the cursor in the list (nodes: the
   cursor is NULL), calls the READDIRX requests answered so far, count and
   dir_status the first two bytes of the last reply. *)
ReadCall(nodes, entry_count) ==
    [fn |-> "tnfs_readdirx", nodes |-> nodes, entry_count |-> entry_count,
     at |-> 0, calls |-> 0, count |-> 0, dir_status |-> 0]

(* the pack loop of tnfs_readdirx on entries whose names all have
   ShortNameLen characters: the index the cursor is left at, count_sent and
   total_size *)
RECURSIVE PackCount(_, _, _, _, _)
PackCount(at, nodes, req_count, count_sent, total_size) ==
    IF at = nodes \/ CountReached(req_count, count_sent)
       \/ WontFit(total_size, ShortNameLen)
    THEN [at |-> at, count_sent |-> count_sent, total_size |-> total_size]
    ELSE PackCount(at + 1, nodes, req_count, (count_sent + 1) % 256,
                   total_size + READDIRX_ENTRY_SIZE + ShortNameLen)

(* the client has its handle: the cursor is at the head of the list *)
StartRead ==
    /\ call.fn = "_load_directory"
    /\ call.replied
    /\ call' = ReadCall(call.nodes, call.entry_count)
    /\ UNCHANGED <<fs, sroot, dhandles, now, ndir, req, sent, ub, nreq, limit,
                   hist, lastseqno, resent, sessions>>

(* tnfs_readdirx on that handle *)
ReadEntries(req_count) ==
    /\ call.fn = "tnfs_readdirx"
    /\ call.calls < MaxReadCalls
    /\ \E pk \in {PackCount(call.at, call.nodes, req_count, 0, READDIRX_HEADER_SIZE)} :
           call' = [call EXCEPT !.at = pk.at,
                                !.calls = @ + 1,
                                !.count = pk.count_sent,
                                !.dir_status = IF pk.at = call.nodes
                                               THEN TNFS_DIRSTATUS_EOF ELSE 0]
    /\ UNCHANGED <<fs, sroot, dhandles, now, ndir, req, sent, ub, nreq, limit,
                   hist, lastseqno, resent, sessions>>

InitDrain == InitCount

NextDrain ==
    \/ LoadEntries
    \/ ReplyCount
    \/ StartRead
    \/ \E req_count \in {0, 1, 2} : ReadEntries(req_count)

SpecDrain == InitDrain /\ [][NextDrain]_vars

(* ------------------------------------------------------------------ *)
(* Properties                                                          *)
(* ------------------------------------------------------------------ *)
(* the step that handles a request *)
IsRequest == nreq' = nreq + 1

(* the client path of the OPENDIR or OPENDIRX request handled last *)
ClientPath ==
    IF req.cmd = "OPENDIR" THEN CStrAt(req.databuf, 1)
    ELSE ParseOpenDirX(req.databuf).pDirpath

(* the last request was an OPENDIR or OPENDIRX that returned a handle *)
Opened ==
    /\ req.cmd \in {"OPENDIR", "OPENDIRX"}
    /\ sent # <<>>
    /\ sent[Len(sent)].status = "SUCCESS"

(* the directory the handle returned by the last request enumerates *)
OpenedDir == dhandles[sent[Len(sent)].handle].handle.dir

(* C1: path containment.  For every OPENDIR and OPENDIRX request the
   directory that the handle stores and that is opened on the filesystem has the
   global root as a prefix of its canonical path: a path whose canonical form
   lies elsewhere is replaced by the global root before the directory is opened. *)
C1_OpenedInsideRoot ==
    \A i \in Slots :
        dhandles[i].handle.dir # NULL => HasPrefix(dhandles[i].handle.dir, realroot)

(* C2: a client path with a literal "../" is replaced by the global root.
   OPENDIR and OPENDIRX of such a path return a handle that enumerates the
   global root and never another directory. *)
C2_DotDotOpensRoot ==
    (Opened /\ Contains(ClientPath, <<46, 46, 47>>)) => OpenedDir = realroot

(* C3: every directory command handler sends exactly one reply for the request
   it ran on, whatever path it takes. *)
C3_ExactlyOneReply == nreq > 0 => Len(sent) = 1

(* C4: READDIRX on a handle whose cursor is already at the end of its entry
   list is answered by status EOF with an empty body, and leaves the cursor at
   the end. *)
C4_EofWithEmptyBody ==
    [][\A h \in Slots :
          (/\ IsRequest
           /\ req'.cmd = "READDIRX"
           /\ req'.databuf = <<h, req'.databuf[Len(req'.databuf)]>>
           /\ dhandles[h].open
           /\ dhandles[h].loaded
           /\ dhandles[h].current_entry = 0)
          => (sent' = <<Reply("EOF", 0)>> /\ dhandles'[h].current_entry = 0)]_vars

(* C5: READDIR, CLOSEDIR, SEEKDIR, TELLDIR and READDIRX answer every handle
   byte h >= MAX_DHND_PER_CONN, h = MAX_DHND_PER_CONN included, with EBADF, and
   touch no slot outside 0..MAX_DHND_PER_CONN-1. *)
C5_HandleOutOfRange ==
    (/\ req.cmd \in {"READDIR", "CLOSEDIR", "SEEKDIR", "TELLDIR", "READDIRX"}
     /\ req.databuf[1] >= MAX_DHND_PER_CONN)
    => (sent = <<Reply("EBADF", 0)>> /\ ub = "none")

(* the last request was a successful OPENDIRX without TRAVERSE *)
Loaded == Opened /\ req.cmd = "OPENDIRX" /\ ~HasBit(req.databuf[1], TNFS_DIROPT_TRAVERSE)

(* its parameters, the listing readdir delivered and the list it left *)
Rq == ParseOpenDirX(req.databuf)
Listing == fs[OpenedDir]
LoadedList == Entries(dhandles[sent[Len(sent)].handle].entry_list)

(* the acceptance rule of OPENDIRX as stated for C6 *)
RuleAccepts(e) ==
    /\ ~e.hidden \/ HasBit(Rq.diropts, TNFS_DIROPT_NO_SKIPHIDDEN)
    /\ ~e.special \/ HasBit(Rq.diropts, TNFS_DIROPT_NO_SKIPSPECIAL)
    /\ ~e.dir \/ ~HasBit(Rq.diropts, TNFS_DIROPT_NO_FOLDERS)
    /\ \/ Rq.pPattern = NULL
       \/ _pattern_match(e.name, Rq.pPattern)
       \/ e.dir /\ ~HasBit(Rq.diropts, TNFS_DIROPT_DIR_PATTERN)

(* the rule, for entries get_fileinfo succeeds on *)
StatAndRuleAccepts(e) == e.statok /\ RuleAccepts(e)

(* the entries of a sequence read before the maxresults cut-off *)
BeforeCutOff(accepted) ==
    IF Rq.maxresults > 0 /\ Len(accepted) > Rq.maxresults
    THEN SubSeq(accepted, 1, Rq.maxresults) ELSE accepted

(* a list holds the entries of a sequence, each once, in any order *)
HoldsExactly(list, ents) ==
    /\ Len(list) = Len(ents)
    /\ {list[i].entrypath : i \in DOMAIN list} = {ents[i].name : i \in DOMAIN ents}

(* C6 as stated: OPENDIRX accepts an entry iff it is not hidden or
   NO_SKIPHIDDEN is set, not special or NO_SKIPSPECIAL is set, not a directory
   or NO_FOLDERS is clear, and the pattern is empty, or the name matches it, or
   the entry is a directory and DIR_PATTERN is clear; the list holds exactly
   the accepted entries read before the maxresults cut-off. *)
C6_ListIsRuleAccepted ==
    Loaded => HoldsExactly(LoadedList, BeforeCutOff(SelectSeq(Listing, RuleAccepts)))

(* C6, amended: OPENDIRX accepts an entry iff get_fileinfo succeeds on it and
   the rule above accepts it; the list holds exactly the accepted entries read
   before the maxresults cut-off. *)
C6_ListIsStatAndRuleAccepted ==
    Loaded => HoldsExactly(LoadedList, BeforeCutOff(SelectSeq(Listing, StatAndRuleAccepts)))

(* C6 happens: a load with a pattern and a cut-off, over a listing with an
   entry that cannot be stat'ed, that kept one entry and left another accepted
   entry unread. *)
C6_Witness ==
    /\ Loaded
    /\ Rq.pPattern # NULL
    /\ \E i \in DOMAIN Listing : ~Listing[i].statok
    /\ \E i \in DOMAIN Listing : ~RuleAccepts(Listing[i])
    /\ Rq.maxresults = 1
    /\ Len(LoadedList) = 1
    /\ Len(SelectSeq(Listing, StatAndRuleAccepts)) > 1

(* the order C7 states for two names that follow each other *)
InOrder(a, b) ==
    LET r == IF HasBit(Rq.sortopts, TNFS_DIRSORT_CASE) THEN strcmp(a, b)
             ELSE strcasecmp(a, b)
    IN  IF HasBit(Rq.sortopts, TNFS_DIRSORT_DESCENDING) THEN r >= 0 ELSE r <= 0

IsDirEntry(x) == "DIRECTORY" \in x.flags

(* the requests C7 is about: sorted by name *)
SortedByName ==
    /\ Loaded
    /\ ~HasBit(Rq.sortopts, TNFS_DIRSORT_NONE)
    /\ ~HasBit(Rq.sortopts, TNFS_DIRSORT_SIZE)
    /\ ~HasBit(Rq.sortopts, TNFS_DIRSORT_MODIFIED)

(* C7: after a successful OPENDIRX without TRAVERSE that sorts by name, the
   list has every directory before every file unless NO_FOLDERSFIRST is set
   (then both are sorted together); within a group, names that follow each
   other are in non-decreasing order, case-insensitively or, with CASE, case-
   sensitively, and in non-increasing order with DESCENDING; and the list is a
   permutation of the accepted entries. *)
C7_GroupedAndSorted ==
    SortedByName =>
        /\ HasBit(Rq.diropts, TNFS_DIROPT_NO_FOLDERSFIRST)
           \/ \A i, j \in DOMAIN LoadedList :
                  (i < j /\ IsDirEntry(LoadedList[j])) => IsDirEntry(LoadedList[i])
        /\ \A i \in 1..(Len(LoadedList) - 1) :
               (\/ HasBit(Rq.diropts, TNFS_DIROPT_NO_FOLDERSFIRST)
                \/ IsDirEntry(LoadedList[i]) = IsDirEntry(LoadedList[i + 1]))
               => InOrder(LoadedList[i].entrypath, LoadedList[i + 1].entrypath)
        /\ HoldsExactly(LoadedList, BeforeCutOff(SelectSeq(Listing, StatAndRuleAccepts)))

(* C7 happens: a descending case-insensitive sort, folders first, of two
   directories and two files read in another order. *)
C7_Witness ==
    /\ SortedByName
    /\ Rq.sortopts = TNFS_DIRSORT_DESCENDING
    /\ Rq.diropts = 0
    /\ Len(LoadedList) = 4
    /\ IsDirEntry(LoadedList[2])
    /\ ~IsDirEntry(LoadedList[3])
    /\ \E i \in 1..3 : Listing[i].name # LoadedList[i].entrypath

(* the last reply of the last request *)
LastReply == sent[Len(sent)]

(* the last request was a READDIRX on slot h *)
ReadX(h) == req.cmd = "READDIRX" /\ Len(req.databuf) = 2 /\ req.databuf[1] = h

(* the zero-based position of the cursor of a handle in its list; the length
   of the list when the cursor is NULL *)
CursorIndex(dh) ==
    IF dh.current_entry = 0 THEN Len(dh.entry_list)
    ELSE (CHOOSE i \in DOMAIN dh.entry_list : dh.entry_list[i].addr = dh.current_entry) - 1

(* C8: pagination.  From a successful OPENDIRX on, with no SEEKDIR in between,
   the entries the READDIRX calls returned so far, put together, are the
   entries of the list up to the cursor, each once and in list order, so the
   whole list once the end of the directory is reached; and the dirpos of
   every reply with entries is the number of entries the earlier calls
   returned. *)
C8_Pagination ==
    \A h \in Slots :
        hist[h].valid =>
            /\ hist[h].seen = SubSeq(Entries(dhandles[h].entry_list), 1,
                                     CursorIndex(dhandles[h]))
            /\ dhandles[h].current_entry = 0
                   => hist[h].seen = Entries(dhandles[h].entry_list)
            /\ (ReadX(h) /\ LastReply.entries # <<>>)
                   => /\ LastReply.count = Len(LastReply.entries)
                      /\ LastReply.dirpos = Len(hist[h].seen) - Len(LastReply.entries)
                      /\ LastReply.entries =
                             SubSeq(hist[h].seen, LastReply.dirpos + 1, Len(hist[h].seen))

(* C8 happens: a READDIRX that is not the first since the OPENDIRX returned the
   last entries of a list of three or more. *)
C8_Witness ==
    \E h \in Slots :
        /\ hist[h].valid
        /\ ReadX(h)
        /\ LastReply.entries # <<>>
        /\ LastReply.dirpos > 0
        /\ LastReply.dir_status = TNFS_DIRSTATUS_EOF
        /\ Len(hist[h].seen) >= 3

(* the payload bytes of a batch: the header and, per entry, the fixed part and
   the name *)
RECURSIVE BatchSize(_)
BatchSize(batch) ==
    IF batch = <<>> THEN READDIRX_HEADER_SIZE
    ELSE BatchSize(Tail(batch)) + READDIRX_ENTRY_SIZE + Len(Head(batch).entrypath)

(* whether a batch is within req_count (if not 0) and within the payload *)
BatchAllowed(batch, req_count) ==
    /\ req_count = 0 \/ Len(batch) <= req_count
    /\ BatchSize(batch) <= TNFS_MAX_PAYLOAD

(* the entries of a handle from its cursor on *)
Remaining(dh) ==
    SubSeq(Entries(dh.entry_list), CursorIndex(dh) + 1, Len(dh.entry_list))

(* C9: the batch one READDIRX packs is the longest prefix of the remaining
   entries whose count is within req_count (when that is not 0) and whose
   size, 4 header bytes and 14 bytes plus the name length per entry, is within
   TNFS_MAX_PAYLOAD; so the payload never exceeds TNFS_MAX_PAYLOAD and with
   req_count 0 the next entry, if any, would not have fitted. *)
C9_LongestBatch ==
    [][\A h \in Slots :
          (IsRequest /\ req'.cmd = "READDIRX" /\ Len(req'.databuf) = 2
                     /\ req'.databuf[1] = h)
          => LET rest == Remaining(dhandles[h])
                 reply == sent'[Len(sent')]
                 k == Len(reply.entries)
             IN  /\ k <= Len(rest)
                 /\ reply.entries = SubSeq(rest, 1, k)
                 /\ reply.count = k
                 /\ reply.len = BatchSize(reply.entries)
                 /\ reply.len <= TNFS_MAX_PAYLOAD
                 /\ BatchAllowed(reply.entries, req'.databuf[2])
                 /\ k < Len(rest)
                        => ~BatchAllowed(SubSeq(rest, 1, k + 1), req'.databuf[2])]_vars

(* C9 happens: a READDIRX with req_count 0 whose batch fills the payload to the
   last byte and leaves an entry behind. *)
C9_Witness ==
    /\ \E h \in Slots : ReadX(h) /\ dhandles[h].current_entry # 0
    /\ req.databuf[2] = 0
    /\ LastReply.len = TNFS_MAX_PAYLOAD
    /\ Len(LastReply.entries) = 2

(* C10: on an open loaded handle, for 0 <= n < entry_count, a TELLDIR after
   SEEKDIR(n) answers n, and the first READDIRX after SEEKDIR(n) returns the
   entry at zero-based index n of the list first. *)
C10_SeekTellRead ==
    \A h \in Slots :
        (dhandles[h].open /\ dhandles[h].loaded) =>
            /\ (/\ req.cmd = "TELLDIR"
                /\ req.databuf = <<h>>
                /\ hist[h].seekpos >= 0
                /\ hist[h].seekpos < dhandles[h].entry_count)
               => sent = <<[Reply("SUCCESS", 4) EXCEPT !.pos = hist[h].seekpos]>>
            /\ (/\ ReadX(h)
                /\ hist[h].from >= 0
                /\ hist[h].from < dhandles[h].entry_count)
               => /\ LastReply.entries # <<>>
                  /\ LastReply.entries[1] =
                         Entries(dhandles[h].entry_list)[hist[h].from + 1]

(* C10 happens: SEEKDIR(2), a TELLDIR that answered 2 and then a READDIRX that
   returned the third entry of the list first. *)
C10_Witness ==
    \E h \in Slots :
        /\ dhandles[h].open
        /\ dhandles[h].loaded
        /\ ReadX(h)
        /\ hist[h].from = 2
        /\ hist[h].told = 2
        /\ dhandles[h].entry_count > 2
        /\ LastReply.entries[1] = Entries(dhandles[h].entry_list)[3]


(* ------------------------------------------------------------------ *)
(* Reuse of loaded handles                                             *)
(* ------------------------------------------------------------------ *)
(* the OPENDIRX payload asks for TRAVERSE and is well formed *)
TraverseRq(databuf) ==
    ~OpenDirXMalformed(databuf) /\ HasBit(databuf[1], TNFS_DIROPT_TRAVERSE)

(* slot i holds, loaded, closed and not older than DIR_HANDLE_TIMEOUT, the
   directory the OPENDIRX payload asks for, with the same options and pattern *)
ClosedAndKept(i, databuf) ==
    LET rq == ParseOpenDirX(databuf)
    IN  /\ dhandles[i].loaded
        /\ ~dhandles[i].open
        /\ now <= dhandles[i].open_at + DIR_HANDLE_TIMEOUT
        /\ dhandles[i].path = RequestedPath(sroot, rq.pDirpath)
        /\ dhandles[i].diropt = rq.diropts
        /\ dhandles[i].sortopt = rq.sortopts
        /\ dhandles[i].pattern = (IF rq.pPattern = NULL THEN <<>> ELSE rq.pPattern)

(* the OPENDIRX step gave slot i back as it was loaded, cursor at the head *)
ReusedAsLoaded(i) ==
    /\ sent' = <<[Reply("SUCCESS", 3) EXCEPT !.handle = i,
                                             !.count = dhandles[i].entry_count]>>
    /\ dhandles'[i].open
    /\ dhandles'[i].loaded
    /\ dhandles'[i].entry_list = dhandles[i].entry_list
    /\ dhandles'[i].entry_count = dhandles[i].entry_count
    /\ dhandles'[i].current_entry = ListHead(dhandles[i].entry_list)

(* C11: handle reuse.  A TRAVERSE OPENDIRX that finds a slot loaded with the
   same path, diropt, sortopt and pattern, closed, and loaded no longer than
   DIR_HANDLE_TIMEOUT seconds ago returns that slot's index, keeps its entry
   list and count as they were loaded and puts the cursor on the first entry. *)
C11_ReopenReusesHandle ==
    [][\A i \in Slots :
          (/\ IsRequest
           /\ req'.cmd = "OPENDIRX"
           /\ TraverseRq(req'.databuf)
           /\ ClosedAndKept(i, req'.databuf))
          => ReusedAsLoaded(i)]_vars

(* C12: the reuse tier selects only a slot that is loaded and not open and
   whose path, diropt, sortopt and pattern equal the request's.  So the handle
   a successful OPENDIR or OPENDIRX returns was not open right before the call,
   and the cursor of a handle the client holds open is not moved by an open
   request. *)
C12_ReturnedHandleWasClosed ==
    [][(/\ IsRequest
        /\ req'.cmd \in {"OPENDIR", "OPENDIRX"}
        /\ Opened')
       => /\ ~dhandles[sent'[1].handle].open
          /\ \A i \in Slots :
                dhandles[i].open
                => dhandles'[i].current_entry = dhandles[i].current_entry]_vars

(* the payload of an OPENDIR or OPENDIRX request is well formed *)
WellFormedOpen(cmd, databuf) ==
    IF cmd = "OPENDIR" THEN databuf[Len(databuf)] = 0
    ELSE cmd = "OPENDIRX" /\ ~OpenDirXMalformed(databuf)

(* C13: when every one of the MAX_DHND_PER_CONN slots of the session is open,
   an OPENDIR or OPENDIRX request, with or without TRAVERSE, gets no handle: the
   reply is EMFILE and no slot changes. *)
C13_AllOpenGivesEMFILE ==
    [][(/\ IsRequest
        /\ req'.cmd \in {"OPENDIR", "OPENDIRX"}
        /\ WellFormedOpen(req'.cmd, req'.databuf)
        /\ \A i \in Slots : dhandles[i].open)
       => (sent' = <<Reply("EMFILE", 0)>> /\ dhandles' = dhandles)]_vars

(* ------------------------------------------------------------------ *)
(* Retransmitted requests                                              *)
(* ------------------------------------------------------------------ *)
(* the step answers a request whose sequence number is s->lastseqno *)
IsRetransmit == resent' = resent + 1

(* C14: retransmit law.  A request whose seq equals the session's last_seq is
   answered with exactly the cached last reply and no handler runs again: the
   handle table, the cursors, the filesystem and the count of handled requests
   are as the first execution left them. *)
C14_RetransmitFromCache ==
    [][IsRetransmit
       => /\ sent' = <<sent[Len(sent)]>>
          /\ UNCHANGED <<dhandles, fs, ndir, nreq, lastseqno, hist>>]_vars

(* a READDIRX that returned one entry was repeated and answered again: the
   cursor moved once *)
C14_Witness ==
    /\ resent > 0
    /\ nreq = 2
    /\ req.cmd = "READDIRX"
    /\ sent = <<sent[1]>>
    /\ sent[1].status = "SUCCESS"
    /\ sent[1].count = 1
    /\ dirlist_get_index_for_node(dhandles[0].entry_list, dhandles[0].current_entry) = 1

(* ------------------------------------------------------------------ *)
(* The session table                                                   *)
(* ------------------------------------------------------------------ *)
(* C15: in every reachable state of the session table, after any sequence of
   MOUNT, UMOUNT, timeout sweep and TCP disconnect, every live session has a
   non-zero sid, no two live sessions share a sid, at most MAX_SESSIONS_PER_IP
   live sessions have the same client address and at most MAX_SESSIONS sessions
   are live. *)
C15_SessionTable ==
    /\ \A i \in Live(sessions) : sessions[i].sid # 0
    /\ \A i, j \in Live(sessions) : sessions[i].sid = sessions[j].sid => i = j
    /\ \A ipaddr \in IpAddrs :
           Cardinality(SessionsOfIp(sessions, ipaddr)) <= MaxSessionsPerIp
    /\ tnfs_session_count(sessions) <= MaxSessions

(* the table is full, one address holds as many sessions as it may, a session
   was mounted after time had passed, and a MOUNT was refused *)
C15_Witness ==
    /\ tnfs_session_count(sessions) = MaxSessions
    /\ \E ipaddr \in IpAddrs :
           Cardinality(SessionsOfIp(sessions, ipaddr)) = MaxSessionsPerIp
    /\ \E i \in Live(sessions) : sessions[i].last_contact > 0
    /\ req.cmd = "MOUNT"
    /\ sent = <<Reply("EMFILE", 0)>>

(* ------------------------------------------------------------------ *)
(* Payloads without terminator                                         *)
(* ------------------------------------------------------------------ *)
(* C16: an OPENDIR, OPENDIRX, MKDIR or RMDIR request whose payload does not
   end in a zero byte is answered with EINVAL before anything is parsed: no
   directory-handle slot is allocated, evicted, swept or changed in any other
   way, no native iterator is opened or closed and the filesystem stays as it
   was. *)
C16_UnterminatedIsEINVAL ==
    [][(/\ IsRequest
        /\ req'.cmd \in {"OPENDIR", "OPENDIRX", "MKDIR", "RMDIR"}
        /\ req'.databuf[Len(req'.databuf)] # 0)
       => /\ sent' = <<Reply("EINVAL", 0)>>
          /\ UNCHANGED <<dhandles, fs, ndir>>]_vars

(* an OPENDIRX payload of 7 bytes or more without terminator was refused while
   a stale loaded handle was waiting to be swept *)
C16_Witness ==
    /\ req.cmd = "OPENDIRX"
    /\ Len(req.databuf) >= 7
    /\ req.databuf[Len(req.databuf)] # 0
    /\ sent = <<Reply("EINVAL", 0)>>
    /\ \E i \in Slots :
           /\ dhandles[i].loaded
           /\ ~dhandles[i].open
           /\ now > dhandles[i].open_at + DIR_HANDLE_TIMEOUT

(* ------------------------------------------------------------------ *)
(* OPENDIRX with one string                                            *)
(* ------------------------------------------------------------------ *)
(* the payload is the 4 option bytes and exactly one null-terminated string *)
OneString(databuf) ==
    /\ Len(databuf) >= 5
    /\ databuf[Len(databuf)] = 0
    /\ \A k \in 5..(Len(databuf) - 1) : databuf[k] # 0

(* C17: an OPENDIRX payload of the 4 option bytes and exactly one
   null-terminated string is accepted whatever the string, the empty string
   and a path of one character included: it is not refused as malformed, and
   the handle it returns has an empty pattern and the string as its path (or
   the root, when the path was found to lie outside it). *)
C17_OneStringAccepted ==
    (req.cmd = "OPENDIRX" /\ OneString(req.databuf))
    => /\ sent[1].status # "EINVAL"
       /\ Opened =>
             /\ dhandles[sent[1].handle].pattern = <<>>
             /\ \E v \in {0, 1} :
                    dhandles[sent[1].handle].path
                        = ContainedPath(
                              RequestedPath(sroot, SubSeq(req.databuf, 5,
                                                          Len(req.databuf) - 1)), v)

(* ------------------------------------------------------------------ *)
(* The count of OPENDIRX                                               *)
(* ------------------------------------------------------------------ *)
(* the lesser of two numbers *)
Least(a, b) == IF a <= b THEN a ELSE b

(* C18: the count of a successful OPENDIRX reply is the number of entries of
   the handle's list, which is the number of accepted entries when maxresults
   is 0 and the lesser of maxresults and that number otherwise, for every
   directory size, 2^16 entries and more included. *)
C18_CountIsListLength ==
    (call.fn = "_load_directory" /\ call.replied)
    => /\ call.count = call.nodes
       /\ call.entry_count = call.nodes
       /\ call.nodes = (IF call.maxresults = 0 THEN call.accepted
                        ELSE Least(call.maxresults, call.accepted))

(* ------------------------------------------------------------------ *)
(* Glob matching                                                       *)
(* ------------------------------------------------------------------ *)
(* two characters are the same, or the same letter in the two cases *)
SameIgnoringCase(a, b) ==
    \/ a = b
    \/ a \in 65..90 /\ b = a + 32
    \/ b \in 65..90 /\ a = b + 32

(* The reference semantics, read from the front of the pattern: `*' stands
   for any run of characters of the name, the empty one included, `?' for
   exactly one character, any other character for itself in either case. *)
RECURSIVE GlobMatches(_, _)
GlobMatches(name, pattern) ==
    IF pattern = <<>> THEN name = <<>>
    ELSE IF Head(pattern) = 42
    THEN \E k \in 0..Len(name) :
             GlobMatches(SubSeq(name, k + 1, Len(name)), Tail(pattern))
    ELSE /\ name # <<>>
         /\ Head(pattern) = 63 \/ SameIgnoringCase(Head(name), Head(pattern))
         /\ GlobMatches(Tail(name), Tail(pattern))

(* C19: glob matching.  For every name and every pattern that is not empty,
   _pattern_match(name, pattern) is true exactly when the whole name matches the
   whole pattern under the reference semantics: `*' matches any sequence of zero
   or more characters, `?' exactly one character, any other pattern character
   the same character ignoring case. *)
C19_GlobMatch ==
    (call.fn = "_pattern_match" /\ call.returned)
    => (call.result <=> GlobMatches(call.src, call.pattern))

(* "aAb" was matched against "A*b" and found to match *)
C19_Witness ==
    /\ call.fn = "_pattern_match"
    /\ call.returned
    /\ call.src = <<97, 65, 98>>
    /\ call.pattern = <<65, 42, 98>>
    /\ call.result

(* ------------------------------------------------------------------ *)
(* Reclaiming loaded handles                                           *)
(* ------------------------------------------------------------------ *)
(* slot i is loaded, closed, and was loaded more than DIR_HANDLE_TIMEOUT
   seconds ago *)
StaleHandle(i) ==
    /\ dhandles[i].loaded
    /\ ~dhandles[i].open
    /\ now > dhandles[i].open_at + DIR_HANDLE_TIMEOUT

(* slot i holds no list *)
Reclaimed(i) == ~dhandles[i].loaded /\ dhandles[i].entry_list = <<>>

(* C20: every directory handle that is loaded but not open is eventually
   reclaimed (entry list freed, loaded cleared) once DIR_HANDLE_TIMEOUT seconds
   have passed since its load, by the periodic tick of the event loop, also when
   the session sends no further OPENDIR or OPENDIRX. *)
C20_EventuallyReclaimed ==
    \A i \in Slots : StaleHandle(i) ~> Reclaimed(i)

(* C20, as the code has it: a handle that is loaded, closed and older than
   DIR_HANDLE_TIMEOUT is reclaimed by the next OPENDIR or OPENDIRX of its
   session that reaches the allocation of a handle: after that request the slot
   holds no list, or is the slot the request was given, initialised anew. *)
C20_NextOpenReclaims ==
    [][\A i \in Slots :
          (/\ IsRequest
           /\ req'.cmd \in {"OPENDIR", "OPENDIRX"}
           /\ WellFormedOpen(req'.cmd, req'.databuf)
           /\ StaleHandle(i))
          => \/ Reclaimed(i)'
             \/ /\ Opened'
                /\ sent'[1].handle = i
                /\ dhandles'[i].open_at = now]_vars

(* an OPENDIRX was given one slot and left another one, loaded earlier and
   stale by then, without its list *)
C20_Witness ==
    /\ Opened
    /\ \E i \in Slots :
           /\ sent[1].handle # i
           /\ Reclaimed(i)
           /\ ~dhandles[i].open
           /\ dhandles[i].open_at > 0
           /\ now > dhandles[i].open_at + DIR_HANDLE_TIMEOUT

(* ------------------------------------------------------------------ *)
(* The tiers of the allocation                                         *)
(* ------------------------------------------------------------------ *)
(* the least number of a non-empty set of slots *)
LeastOf(S) == CHOOSE i \in S : \A j \in S : i <= j

(* the slots that hold nothing worth keeping: not open, and not loaded or
   loaded too long ago *)
FreeSlots == {i \in Slots : ~dhandles[i].open /\ (~dhandles[i].loaded \/ StaleHandle(i))}

(* the slots no client holds *)
ClosedSlots == {i \in Slots : ~dhandles[i].open}

(* the slot the tiers after the reuse tier choose, -1 when there is none *)
TierChoice ==
    IF FreeSlots # {} THEN LeastOf(FreeSlots)
    ELSE IF ClosedSlots # {} THEN LeastOf(ClosedSlots)
    ELSE -1

(* no loaded slot can be taken by the reuse tier for the request *)
NoReuseApplies(cmd, databuf) ==
    \/ cmd = "OPENDIR"
    \/ ~HasBit(databuf[1], TNFS_DIROPT_TRAVERSE)
    \/ LET rq == ParseOpenDirX(databuf)
       IN  ~\E i \in Slots :
               /\ dhandles[i].loaded
               /\ ~StaleHandle(i)
               /\ dhandles[i].diropt = rq.diropts
               /\ dhandles[i].sortopt = rq.sortopts
               /\ \E v \in {0, 1} :
                     dhandles[i].path = ContainedPath(RequestedPath(sroot, rq.pDirpath), v)
               /\ (rq.pPattern = NULL \/ dhandles[i].pattern = rq.pPattern)

(* C21: allocation tier order.  When no reuse applies, allocation returns the
   lowest slot that is neither open nor loaded (after the sweep of expired
   slots) if there is one, and only when there is none it evicts the lowest
   slot that is not open; when every slot is open the reply is EMFILE.  Every
   other slot stays as it was, except that an expired one is released: a list
   that is loaded, closed and not expired is never discarded while an empty
   slot is available. *)
C21_TierOrder ==
    [][(/\ IsRequest
        /\ req'.cmd \in {"OPENDIR", "OPENDIRX"}
        /\ WellFormedOpen(req'.cmd, req'.databuf)
        /\ NoReuseApplies(req'.cmd, req'.databuf))
       => /\ (sent'[1].status = "EMFILE") <=> (TierChoice = -1)
          /\ Opened' => sent'[1].handle = TierChoice
          /\ TierChoice >= 0 => dhandles'[TierChoice].open_at = now
          /\ \A j \in Slots \ {TierChoice} :
                IF StaleHandle(j) THEN Reclaimed(j)'
                ELSE dhandles'[j] = dhandles[j]]_vars

(* with no slot empty and no time passed, an open request evicted slot 1, the
   lower one of the two closed slots: slot 2 still holds its list, closed *)
C21_Witness ==
    /\ Opened
    /\ now = 0
    /\ sent[1].handle = 1
    /\ dhandles[2].loaded /\ ~dhandles[2].open
    /\ \A i \in Slots \ {2} : dhandles[i].open

(* ------------------------------------------------------------------ *)
(* The sweep of expired handles                                        *)
(* ------------------------------------------------------------------ *)
(* slot i stores the directory, options and pattern the OPENDIRX payload asks for *)
SameRequest(i, databuf) ==
    LET rq == ParseOpenDirX(databuf)
    IN  /\ dhandles[i].path = RequestedPath(sroot, rq.pDirpath)
        /\ dhandles[i].diropt = rq.diropts
        /\ dhandles[i].sortopt = rq.sortopts
        /\ dhandles[i].pattern = (IF rq.pPattern = NULL THEN <<>> ELSE rq.pPattern)

(* the handle the step returned was initialised and loaded by this very
   request: its list names every plain directory its directory holds now *)
Reloaded ==
    LET h == sent'[1].handle
        d == realpath(DOMAIN fs, dhandles'[h].path)
    IN  /\ dhandles'[h].open_at = now
        /\ d # NULL
        /\ dhandles'[h].handle.dir = d
        /\ \A k \in 1..Len(fs[d]) :
              (fs[d][k].statok /\ fs[d][k].dir /\ ~fs[d][k].hidden /\ ~fs[d][k].special)
              => \E n \in 1..Len(dhandles'[h].entry_list) :
                    dhandles'[h].entry_list[n].entry.entrypath = fs[d][k].name

(* C22: before it searches, every allocation releases each slot that is
   loaded, not open, and has open_at + DIR_HANDLE_TIMEOUT < now; so a TRAVERSE
   reopen that arrives more than DIR_HANDLE_TIMEOUT seconds after the load of a
   closed handle does not reuse the old list but reloads the directory; and a
   slot that is open is never released by the sweep, whatever its age. *)
C22_SweepBeforeSearch ==
    [][(/\ IsRequest
        /\ req'.cmd \in {"OPENDIR", "OPENDIRX"}
        /\ WellFormedOpen(req'.cmd, req'.databuf))
       => /\ \A i \in Slots :
                StaleHandle(i) => (Reclaimed(i)' \/ dhandles'[i].open_at = now)
          /\ \A i \in Slots :
                (/\ req'.cmd = "OPENDIRX"
                 /\ TraverseRq(req'.databuf)
                 /\ StaleHandle(i)
                 /\ SameRequest(i, req'.databuf)
                 /\ Opened')
                => Reloaded
          /\ \A i \in Slots :
                (dhandles[i].open /\ dhandles[i].loaded)
                => /\ dhandles'[i].loaded
                   /\ dhandles'[i].entry_list = dhandles[i].entry_list]_vars

(* ------------------------------------------------------------------ *)
(* The end-of-directory bit                                            *)
(* ------------------------------------------------------------------ *)
(* C23: in a successful READDIRX reply the DIRSTATUS_EOF bit of dir_status is
   set if and only if the cursor of the handle is at the end of the entry list
   after the batch was packed; read in sequence from the OPENDIRX on, that is
   when the last entry of a list that is not empty was part of this or an
   earlier reply. *)
C23_EofIffCursorAtEnd ==
    \A h \in Slots :
        (ReadX(h) /\ LastReply.status = "SUCCESS")
        => /\ HasBit(LastReply.dir_status, TNFS_DIRSTATUS_EOF)
              <=> dhandles[h].current_entry = 0
           /\ (hist[h].valid /\ dhandles[h].entry_list # <<>>)
              => (HasBit(LastReply.dir_status, TNFS_DIRSTATUS_EOF)
                  <=> hist[h].seen = Entries(dhandles[h].entry_list))

(* a READDIRX reply with the bit set that carries the last entries of the
   list, after an earlier reply of the same enumeration that carried the first
   ones *)
C23_Witness ==
    \E h \in Slots :
        /\ hist[h].valid
        /\ ReadX(h)
        /\ LastReply.status = "SUCCESS"
        /\ LastReply.entries # <<>>
        /\ Len(hist[h].seen) > Len(LastReply.entries)
        /\ HasBit(LastReply.dir_status, TNFS_DIRSTATUS_EOF)
        /\ dhandles[h].current_entry = 0

(* ------------------------------------------------------------------ *)
(* Normalised paths                                                    *)
(* ------------------------------------------------------------------ *)
(* '/' and '\' are the directory separators *)
IsSeparator(c) == c = 47 \/ c = 92

(* a path with every maximal run of separators replaced by one '/' *)
RECURSIVE Collapsed(_)
Collapsed(path) ==
    IF path = <<>> THEN <<>>
    ELSE IF ~IsSeparator(Head(path)) THEN <<Head(path)>> \o Collapsed(Tail(path))
    ELSE IF Len(path) > 1 /\ IsSeparator(path[2]) THEN Collapsed(Tail(path))
    ELSE <<47>> \o Collapsed(Tail(path))

(* C24: normalize_path maps every path to the path in which each maximal run
   of directory separators, `/' and backslash alike, is replaced by a single
   `/' and every other character is left as it is; the result holds no
   backslash and no two `/' in a row and is never longer than the input. *)
C24_NormalizeCollapses ==
    (call.fn = "normalize_path" /\ call.returned)
    => /\ call.newbuf = Collapsed(call.oldbuf)
       /\ \A i \in 1..Len(call.newbuf) : call.newbuf[i] # 92
       /\ \A i \in 1..(Len(call.newbuf) - 1) :
             ~(call.newbuf[i] = 47 /\ call.newbuf[i + 1] = 47)
       /\ Len(call.newbuf) <= Len(call.oldbuf)

(* ------------------------------------------------------------------ *)
(* Sorting by size and by time                                         *)
(* ------------------------------------------------------------------ *)
(* a <= b for two uint32_t, each its two 16 bit halves *)
LessEq32(a, b) == a.hi < b.hi \/ (a.hi = b.hi /\ a.lo <= b.lo)

(* the field the request sorts by *)
SortKey(x) == IF HasBit(Rq.sortopts, TNFS_DIRSORT_SIZE) THEN x.size ELSE x.mtime

(* the requests C25 is about: sorted by size or by time *)
SortedByNumber ==
    /\ Loaded
    /\ ~HasBit(Rq.sortopts, TNFS_DIRSORT_NONE)
    /\ HasBit(Rq.sortopts, TNFS_DIRSORT_SIZE) \/ HasBit(Rq.sortopts, TNFS_DIRSORT_MODIFIED)

(* C25: with sortopt SIZE (or MODIFIED) set and NONE clear, entries that
   follow each other within a group of the list are in non-decreasing order of
   size (or mtime) compared as unsigned 32 bit values, and in non-increasing
   order when DESCENDING is set too, also when two values differ by 2^31 or
   more. *)
C25_SortedByNumber ==
    SortedByNumber =>
        \A i \in 1..(Len(LoadedList) - 1) :
            (\/ HasBit(Rq.diropts, TNFS_DIROPT_NO_FOLDERSFIRST)
             \/ IsDirEntry(LoadedList[i]) = IsDirEntry(LoadedList[i + 1]))
            => IF HasBit(Rq.sortopts, TNFS_DIRSORT_DESCENDING)
               THEN LessEq32(SortKey(LoadedList[i + 1]), SortKey(LoadedList[i]))
               ELSE LessEq32(SortKey(LoadedList[i]), SortKey(LoadedList[i + 1]))

(* ------------------------------------------------------------------ *)
(* What READDIRX tells about an entry                                  *)
(* ------------------------------------------------------------------ *)
(* x, an entry of a reply, is what the stat of the directory entry f produced *)
CarriesStatOf(x, f) ==
    /\ x.entrypath = f.name
    /\ x.flags = FinfFlags(f)
    /\ x.size = f.size
    /\ x.mtime = f.mtime
    /\ x.ctime = f.ctime

(* C26: every entry READDIRX returns carries the flags (DIRECTORY, HIDDEN,
   SPECIAL), size, mtime and ctime the stat of that entry produced when the
   directory was loaded; so a hidden or special file that is listed because
   NO_SKIPHIDDEN or NO_SKIPSPECIAL is set comes with its HIDDEN or SPECIAL flag
   set.  (The directory does not change between the load and the READDIRX.) *)
C26_EntriesCarryStat ==
    \A h \in Slots :
        (ReadX(h) /\ LastReply.status = "SUCCESS" /\ hist[h].valid)
        => \A i \in 1..Len(LastReply.entries) :
              \E k \in 1..Len(fs[dhandles[h].handle.dir]) :
                  /\ fs[dhandles[h].handle.dir][k].statok
                  /\ CarriesStatOf(LastReply.entries[i], fs[dhandles[h].handle.dir][k])

(* ------------------------------------------------------------------ *)
(* Positions on loaded handles                                         *)
(* ------------------------------------------------------------------ *)
(* the request of the step is a TELLDIR or SEEKDIR, well formed, on a slot that
   is open and was loaded by OPENDIRX *)
PositionRq(cmd, len) ==
    /\ IsRequest
    /\ req'.cmd = cmd
    /\ Len(req'.databuf) = len
    /\ req'.databuf[1] \in Slots
    /\ dhandles[req'.databuf[1]].open
    /\ dhandles[req'.databuf[1]].loaded

(* C27: on every open handle that OPENDIRX loaded, one with an empty list
   included, TELLDIR succeeds and returns the zero-based index of the cursor in
   the list (entry_count at the end, 0 for an empty list), and SEEKDIR(n)
   succeeds and puts the cursor at the end when n >= entry_count; the native
   directory offset is what TELLDIR returns for OPENDIR handles only. *)
C27_PositionIsListIndex ==
    [][/\ PositionRq("TELLDIR", 1)
          => sent' = <<[Reply("SUCCESS", 4) EXCEPT
                           !.pos = CursorIndex(dhandles[req'.databuf[1]])]>>
       /\ PositionRq("SEEKDIR", 5)
          => /\ sent' = <<Reply("SUCCESS", 0)>>
             /\ tnfs32uint(req'.databuf, 2) >= dhandles[req'.databuf[1]].entry_count
                => dhandles'[req'.databuf[1]].current_entry = 0]_vars

(* ------------------------------------------------------------------ *)
(* What CLOSEDIR changes                                               *)
(* ------------------------------------------------------------------ *)
(* C28: a successful CLOSEDIR on handle h changes only the open flag of slot
   h, to false: the entry list, entry_count, cursor, loaded flag, path, options
   and open_at of the slot and every other slot stay as they are; a CLOSEDIR
   that fails (EBADF) changes nothing. *)
C28_CloseChangesOpenOnly ==
    [][(IsRequest /\ req'.cmd = "CLOSEDIR")
       => IF sent'[1].status = "SUCCESS"
          THEN LET h == req'.databuf[1]
               IN  IF h \in Slots
                   THEN /\ dhandles[h].open
                        /\ dhandles' = [dhandles EXCEPT ![h].open = FALSE]
                   ELSE dhandles' = dhandles
          ELSE /\ sent' = <<Reply("EBADF", 0)>>
               /\ dhandles' = dhandles]_vars

(* a CLOSEDIR succeeded on a handle whose list was read in part: the slot is
   closed and still holds its list, with the cursor where READDIRX left it *)
C28_Witness ==
    /\ req.cmd = "CLOSEDIR"
    /\ LastReply.status = "SUCCESS"
    /\ \E h \in Slots :
          /\ req.databuf = <<h>>
          /\ ~dhandles[h].open
          /\ dhandles[h].loaded
          /\ dhandles[h].entry_count > 1
          /\ dhandles[h].current_entry # 0
          /\ dhandles[h].current_entry # ListHead(dhandles[h].entry_list)

(* ------------------------------------------------------------------ *)
(* READDIRX on a handle that is not open                               *)
(* ------------------------------------------------------------------ *)
(* C29: READDIRX on a slot that is not open at the time (never opened, or
   closed by CLOSEDIR and not opened again) replies EBADF, returns no entries
   and does not move the cursor of the slot, as READDIR, SEEKDIR, TELLDIR and
   CLOSEDIR do on such a handle. *)
C29_ReaddirxNeedsOpen ==
    [][(/\ IsRequest
        /\ req'.cmd = "READDIRX"
        /\ Len(req'.databuf) = 2
        /\ req'.databuf[1] \in Slots
        /\ ~dhandles[req'.databuf[1]].open)
       => /\ sent' = <<Reply("EBADF", 0)>>
          /\ dhandles' = dhandles]_vars

(* ------------------------------------------------------------------ *)
(* Native directory iterators                                          *)
(* ------------------------------------------------------------------ *)
(* the slots that hold a native iterator *)
HoldingSlots == {i \in Slots : dhandles[i].handle.dir # NULL}

(* the slots that are open or loaded *)
LiveSlots == {i \in Slots : dhandles[i].open \/ dhandles[i].loaded}

(* C30: no native directory iterator is leaked.  Every iterator that was
   opened and not closed is held by a slot of its own (no slot was given a
   new iterator over an unclosed one), and there are never more of them than
   slots that are open or loaded, which are at most MAX_DHND_PER_CONN. *)
C30_NoIteratorLeak ==
    /\ ndir = Cardinality(HoldingSlots)
    /\ ndir <= Cardinality(LiveSlots)
    /\ Cardinality(LiveSlots) <= MAX_DHND_PER_CONN

(* ------------------------------------------------------------------ *)
(* The list, the count and the cursor of a slot                        *)
(* ------------------------------------------------------------------ *)
(* the cursor of a dir_handle is NULL (the end) or a node of its list *)
CursorInList(d) ==
    \/ d.current_entry = 0
    \/ \E k \in 1..Len(d.entry_list) : d.entry_list[k].addr = d.current_entry

(* a dir_handle whose count, cursor and list agree *)
SlotWellFormed(d) ==
    /\ d.entry_count = Len(d.entry_list)
    /\ CursorInList(d)
    /\ ~d.loaded => (d.entry_list = <<>> /\ d.current_entry = 0)

(* C31: in every state and for every slot, entry_count is the length of
   entry_list, current_entry is the end or a node of that list, and a slot
   that is not loaded has an empty list and its cursor at the end.  For a
   slot _load_directory has just filled, entry_count is the number of nodes
   it pushed. *)
C31_SlotsWellFormed ==
    /\ \A i \in Slots : SlotWellFormed(dhandles[i])
    /\ (call.fn = "_load_directory" /\ call.replied)
       => call.entry_count = call.nodes

(* ------------------------------------------------------------------ *)
(* Progress of an enumeration                                          *)
(* ------------------------------------------------------------------ *)
(* the step is a READDIRX request on an open, loaded slot whose cursor is not
   at the end *)
ReadsOn ==
    /\ IsRequest
    /\ req'.cmd = "READDIRX"
    /\ Len(req'.databuf) = 2
    /\ req'.databuf[1] \in Slots
    /\ dhandles[req'.databuf[1]].open
    /\ dhandles[req'.databuf[1]].loaded
    /\ dhandles[req'.databuf[1]].current_entry # 0

(* C32: progress of enumeration.  A READDIRX request on an open, loaded
   handle whose cursor is not at the end returns at least one entry and moves
   the cursor forward by the entries it returned, whatever req_count and the
   lengths of the names; so a client that only reads has the cursor at the end
   once it has made entry_count calls, and the last of them carried
   TNFS_DIRSTATUS_EOF. *)
C32_EnumerationProgress ==
    [][/\ ReadsOn
          => /\ sent' # <<>>
             /\ sent'[Len(sent')].status = "SUCCESS"
             /\ sent'[Len(sent')].count >= 1
             /\ CursorIndex(dhandles'[req'.databuf[1]])
                    = CursorIndex(dhandles[req'.databuf[1]]) + sent'[Len(sent')].count
       /\ (/\ call.fn = "tnfs_readdirx"
           /\ call'.fn = "tnfs_readdirx"
           /\ call'.calls = call.calls + 1
           /\ call.at < call.nodes)
          => /\ call'.count >= 1
             /\ call'.at = call.at + call'.count
       /\ (/\ call'.fn = "tnfs_readdirx"
           /\ call'.calls >= 1
           /\ call'.calls >= call'.entry_count)
          => /\ call'.at = call'.nodes
             /\ call'.dir_status = TNFS_DIRSTATUS_EOF]_vars
====
